---- MODULE Spec2Model ----
(***************************************************************************)
(* Verification model of the result classifier and narrative generator of  *)
(* the camera-health digital twin (src/agent/analyze.py).                  *)
(*                                                                         *)
(* A JSON-decoded Python value is a tagged record [k, v]:                  *)
(*   k = "null"  : None                 (v = 0, unused)                    *)
(*   k = "bool"  : True / False         (v a BOOLEAN)                      *)
(*   k = "int"   : an int               (v the integer)                    *)
(*   k = "float" : a float              (v the value in thousandths)       *)
(*   k = "str"   : a str                (v the string)                     *)
(*   k = "list"  : a list               (v a sequence of values)           *)
(*   k = "dict"  : a dict               (v a function from keys to values) *)
(* The templates are written in ASCII: the source's dashes are "-" or    *)
(* "--", its curly quotes are ", and its backquotes are '.                 *)
(* A Python call either returns a string or raises: its outcome is the     *)
(* record [exc, s], exc = "" when it returned s, else the exception name.  *)
(***************************************************************************)
EXTENDS Integers, Sequences, FiniteSets, TLC

VARIABLES question, result, rtype, outs, pctPart, pctWhole, pctOut, asked,
          given, heap, pcs, idxs, locals, rets, alone, progressFile,
          extractPc, pointIdx, groupIdx, completed_points, businesses,
          searches, resumed, ending, agentPc, agentQuestion, llm_output,
          tool, params, backendResult, final, events, turns, memory,
          arrived, exchanges, localPc, max_iterations, iteration, messages,
          message, tool_calls, toolIdx, tool_results, localReturn,
          responses, failures, runPc, landIdx, served, min_oid, max_oid,
          cursor, retries, existing_oids, rows, batchEnd

vars == <<question, result, rtype, outs, pctPart, pctWhole, pctOut, asked,
         given, heap, pcs, idxs, locals, rets, alone, progressFile,
         extractPc, pointIdx, groupIdx, completed_points, businesses,
         searches, resumed, ending, agentPc, agentQuestion, llm_output,
         tool, params, backendResult, final, events, turns, memory,
         arrived, exchanges, localPc, max_iterations, iteration, messages,
         message, tool_calls, toolIdx, tool_results, localReturn,
         responses, failures, runPc, landIdx, served, min_oid, max_oid,
         cursor, retries, existing_oids, rows, batchEnd>>

\* The variables of the classification and analysis of a backend result
analyzeVars == <<question, result, rtype, outs>>

\* The variables of a call of pct alone
pctVars == <<pctPart, pctWhole, pctOut>>

\* The variables of concurrent invocations of analyze_result on one payload
callerVars == <<asked, given, heap, pcs, idxs, locals, rets, alone>>

\* The variables of a run of extract_businesses
extractVars == <<progressFile, extractPc, pointIdx, groupIdx,
    completed_points, businesses, searches, resumed, ending>>

\* The variables of the loop of run_agent
agentVars == <<agentPc, agentQuestion, llm_output, tool, params,
    backendResult, final, events, turns>>

\* The variables of the memory of memory_manager
memoryVars == <<memory, arrived, exchanges>>

\* The variables of CameraHealthAgentLocal.analyze
localVars == <<localPc, max_iterations, iteration, messages, message,
    tool_calls, toolIdx, tool_results, localReturn, responses, failures>>

\* The variables of the batch loop of run_extraction
runVars == <<runPc, landIdx, served, min_oid, max_oid, cursor, retries,
    existing_oids, rows, batchEnd>>

\* ------------------------------------------------------------------
\* Python values
\* ------------------------------------------------------------------

PyNone == [k |-> "null", v |-> 0]

PyBool(b) == [k |-> "bool", v |-> b]

PyInt(n) == [k |-> "int", v |-> n]

PyFloat(milli) == [k |-> "float", v |-> milli]

PyStr(s) == [k |-> "str", v |-> s]

PyList(items) == [k |-> "list", v |-> items]

PyDict(f) == [k |-> "dict", v |-> f]

EmptyMap == [key \in {} |-> PyNone]

\* pctOut before pct has returned or raised
NotCalled == [exc |-> "not called", val |-> PyNone]

\* ------------------------------------------------------------------
\* The variables of a specification while another one runs
\* ------------------------------------------------------------------

IdleAnalyze ==
    /\ question = ""
    /\ result = PyNone
    /\ rtype = ""
    /\ outs = <<>>

IdlePct ==
    /\ pctPart = PyNone
    /\ pctWhole = PyNone
    /\ pctOut = NotCalled

IdleCallers ==
    /\ asked = ""
    /\ given = PyNone
    /\ heap = PyNone
    /\ pcs = <<>>
    /\ idxs = <<>>
    /\ locals = <<>>
    /\ rets = <<>>
    /\ alone = <<>>

IdleExtract ==
    /\ progressFile = <<>>
    /\ extractPc = ""
    /\ pointIdx = 0
    /\ groupIdx = 0
    /\ completed_points = {}
    /\ businesses = <<>>
    /\ searches = <<>>
    /\ resumed = {}
    /\ ending = ""

IdleAgent ==
    /\ agentPc = ""
    /\ agentQuestion = ""
    /\ llm_output = PyNone
    /\ tool = PyNone
    /\ params = PyNone
    /\ backendResult = PyNone
    /\ final = ""
    /\ events = <<>>
    /\ turns = 0

IdleMemory ==
    /\ memory = EmptyMap
    /\ arrived = <<>>
    /\ exchanges = 0

IdleLocal ==
    /\ localPc = ""
    /\ max_iterations = 0
    /\ iteration = 0
    /\ messages = <<>>
    /\ message = PyNone
    /\ tool_calls = PyNone
    /\ toolIdx = 0
    /\ tool_results = <<>>
    /\ localReturn = NotCalled
    /\ responses = <<>>
    /\ failures = <<>>

IdleRun ==
    /\ runPc = ""
    /\ landIdx = 0
    /\ served = {}
    /\ min_oid = PyNone
    /\ max_oid = PyNone
    /\ cursor = 0
    /\ retries = 0
    /\ existing_oids = {}
    /\ rows = <<>>
    /\ batchEnd = ""

analyzeRest == <<pctVars, callerVars, extractVars, agentVars, memoryVars,
    localVars, runVars>>

AnalyzeRestIdle ==
    /\ IdlePct
    /\ IdleCallers
    /\ IdleExtract
    /\ IdleAgent
    /\ IdleMemory
    /\ IdleLocal
    /\ IdleRun

pctRest == <<analyzeVars, callerVars, extractVars, agentVars, memoryVars,
    localVars, runVars>>

PctRestIdle ==
    /\ IdleAnalyze
    /\ IdleCallers
    /\ IdleExtract
    /\ IdleAgent
    /\ IdleMemory
    /\ IdleLocal
    /\ IdleRun

callersRest == <<analyzeVars, pctVars, extractVars, agentVars, memoryVars,
    localVars, runVars>>

CallersRestIdle ==
    /\ IdleAnalyze
    /\ IdlePct
    /\ IdleExtract
    /\ IdleAgent
    /\ IdleMemory
    /\ IdleLocal
    /\ IdleRun

extractRest == <<analyzeVars, pctVars, callerVars, agentVars, memoryVars,
    localVars, runVars>>

ExtractRestIdle ==
    /\ IdleAnalyze
    /\ IdlePct
    /\ IdleCallers
    /\ IdleAgent
    /\ IdleMemory
    /\ IdleLocal
    /\ IdleRun

agentRest == <<analyzeVars, pctVars, callerVars, extractVars, memoryVars,
    localVars, runVars>>

AgentRestIdle ==
    /\ IdleAnalyze
    /\ IdlePct
    /\ IdleCallers
    /\ IdleExtract
    /\ IdleMemory
    /\ IdleLocal
    /\ IdleRun

memoryRest == <<analyzeVars, pctVars, callerVars, extractVars, agentVars,
    localVars, runVars>>

MemoryRestIdle ==
    /\ IdleAnalyze
    /\ IdlePct
    /\ IdleCallers
    /\ IdleExtract
    /\ IdleAgent
    /\ IdleLocal
    /\ IdleRun

localRest == <<analyzeVars, pctVars, callerVars, extractVars, agentVars,
    memoryVars, runVars>>

LocalRestIdle ==
    /\ IdleAnalyze
    /\ IdlePct
    /\ IdleCallers
    /\ IdleExtract
    /\ IdleAgent
    /\ IdleMemory
    /\ IdleRun

runRest == <<analyzeVars, pctVars, callerVars, extractVars, agentVars,
    memoryVars, localVars>>

RunRestIdle ==
    /\ IdleAnalyze
    /\ IdlePct
    /\ IdleCallers
    /\ IdleExtract
    /\ IdleAgent
    /\ IdleMemory
    /\ IdleLocal

\* isinstance(x, dict) / isinstance(x, list)
IsDict(x) == x.k = "dict"

IsList(x) == x.k = "list"

\* "key in result" and result.keys() of a dict
Keys(d) == DOMAIN d.v

Has(d, key) == key \in Keys(d)

\* result.get(key): the lookup with its default left out
GetWithoutDefault(d, key, default) == IF Has(d, key) THEN d.v[key] ELSE PyNone

\* result.get(key, default)
Get(d, key, default) == IF Has(d, key) THEN d.v[key] ELSE default

\* bool(x): Python truthiness
Truthy(x) ==
    CASE x.k = "null" -> FALSE
      [] x.k = "bool" -> x.v
      [] x.k = "int" -> x.v # 0
      [] x.k = "float" -> x.v # 0
      [] x.k = "str" -> x.v # ""
      [] x.k = "list" -> Len(x.v) > 0
      [] x.k = "dict" -> DOMAIN x.v # {}

\* a or b
PyOr(a, b) == IF Truthy(a) THEN a ELSE b

\* ------------------------------------------------------------------
\* detect_result_type
\* ------------------------------------------------------------------

Categories ==
    {"error", "city_totals", "site_totals", "site_day_status",
     "vehicle_degrade", "trips", "unknown"}

DetectionsKeys == {"detectionsTotal", "detectionsGood", "detectionsBad"}

TripKeys == {"plate", "day", "window30"}

\* The mapping branch without its first test reading the right keys:
\* the vehicle signature looks for cumMinQ instead of cumNFrames.
detect_dict_wrong_vehicle_key(r) ==
    IF Has(r, "error") THEN "error"
    ELSE IF Has(r, "uniqueVehicles") /\ Has(r, "site") THEN "site_totals"
    ELSE IF Has(r, "uniqueVehicles") /\ ~Has(r, "site") THEN "city_totals"
    ELSE IF DetectionsKeys \subseteq Keys(r) THEN "site_day_status"
    ELSE IF Has(r, "plate") /\ Has(r, "cumMinQ") THEN "vehicle_degrade"
    ELSE "unknown"

\* The mapping branch with the vehicle signature an "or" of its two keys
detect_dict_vehicle_either_key(r) ==
    IF Has(r, "error") THEN "error"
    ELSE IF Has(r, "uniqueVehicles") /\ Has(r, "site") THEN "site_totals"
    ELSE IF Has(r, "uniqueVehicles") /\ ~Has(r, "site") THEN "city_totals"
    ELSE IF DetectionsKeys \subseteq Keys(r) THEN "site_day_status"
    ELSE IF Has(r, "plate") \/ Has(r, "cumNFrames") THEN "vehicle_degrade"
    ELSE "unknown"

\* The mapping branch with the vehicle test ahead of the detections test
detect_dict_vehicle_first(r) ==
    IF Has(r, "error") THEN "error"
    ELSE IF Has(r, "uniqueVehicles") /\ Has(r, "site") THEN "site_totals"
    ELSE IF Has(r, "uniqueVehicles") /\ ~Has(r, "site") THEN "city_totals"
    ELSE IF Has(r, "plate") /\ Has(r, "cumNFrames") THEN "vehicle_degrade"
    ELSE IF DetectionsKeys \subseteq Keys(r) THEN "site_day_status"
    ELSE "unknown"

\* The mapping branch with the site test of the totals signatures dropped
detect_dict_site_ignored(r) ==
    IF Has(r, "error") THEN "error"
    ELSE IF Has(r, "uniqueVehicles") THEN "city_totals"
    ELSE IF DetectionsKeys \subseteq Keys(r) THEN "site_day_status"
    ELSE IF Has(r, "plate") /\ Has(r, "cumNFrames") THEN "vehicle_degrade"
    ELSE "unknown"

\* The mapping branch with the error test after the totals tests
detect_dict_error_late(r) ==
    IF Has(r, "uniqueVehicles") /\ Has(r, "site") THEN "site_totals"
    ELSE IF Has(r, "uniqueVehicles") /\ ~Has(r, "site") THEN "city_totals"
    ELSE IF Has(r, "error") THEN "error"
    ELSE IF DetectionsKeys \subseteq Keys(r) THEN "site_day_status"
    ELSE IF Has(r, "plate") /\ Has(r, "cumNFrames") THEN "vehicle_degrade"
    ELSE "unknown"

\* The branch of detect_result_type taken for a dict
detect_dict(r) ==
    IF Has(r, "error") THEN "error"
    ELSE IF Has(r, "uniqueVehicles") /\ Has(r, "site") THEN "site_totals"
    ELSE IF Has(r, "uniqueVehicles") /\ ~Has(r, "site") THEN "city_totals"
    ELSE IF DetectionsKeys \subseteq Keys(r) THEN "site_day_status"
    ELSE IF Has(r, "plate") /\ Has(r, "cumNFrames") THEN "vehicle_degrade"
    ELSE "unknown"

\* The list branch calling first.keys() without the isinstance test: the
\* call raises on a first element that is no dict.
detect_list_unguarded(r) ==
    IF Len(r.v) = 0 THEN "trips"
    ELSE IF ~IsDict(r.v[1]) THEN "AttributeError"
    ELSE IF TripKeys \subseteq Keys(r.v[1]) THEN "trips"
    ELSE "unknown"

\* The list branch testing every element instead of the first
detect_list_all_elements(r) ==
    IF Len(r.v) = 0 THEN "trips"
    ELSE IF \A i \in 1..Len(r.v) :
                IsDict(r.v[i]) /\ TripKeys \subseteq Keys(r.v[i])
        THEN "trips"
    ELSE "unknown"

\* The list branch without its test of the empty list
detect_list_empty_unknown(r) ==
    IF Len(r.v) = 0 THEN "unknown"
    ELSE IF IsDict(r.v[1]) /\ TripKeys \subseteq Keys(r.v[1]) THEN "trips"
    ELSE "unknown"

\* The branch of detect_result_type taken for a list
detect_list(r) ==
    IF Len(r.v) = 0 THEN "trips"
    ELSE IF IsDict(r.v[1]) /\ TripKeys \subseteq Keys(r.v[1]) THEN "trips"
    ELSE "unknown"

detect_result_type(r) ==
    IF IsDict(r) THEN detect_dict(r)
    ELSE IF IsList(r) THEN detect_list(r)
    ELSE "unknown"

\* ------------------------------------------------------------------
\* Outcomes of Python evaluation, and string formatting
\* ------------------------------------------------------------------

Ok(s) == [exc |-> "", s |-> s]

Raise(e) == [exc |-> e, s |-> ""]

\* The first exception raised by steps evaluated in order ("" when none).
RECURSIVE FirstExc(_)
FirstExc(steps) ==
    IF steps = <<>> THEN ""
    ELSE IF Head(steps).exc # "" THEN Head(steps).exc
    ELSE FirstExc(Tail(steps))

RECURSIVE ConcatAll(_)
ConcatAll(steps) ==
    IF steps = <<>> THEN "" ELSE Head(steps).s \o ConcatAll(Tail(steps))

\* An f-string: its pieces are evaluated left to right; the first piece
\* that raises ends the evaluation.
FString(pieces) ==
    IF FirstExc(pieces) # "" THEN Raise(FirstExc(pieces))
    ELSE Ok(ConcatAll(pieces))

\* "\n".join(lines)
RECURSIVE JoinWith(_, _)
JoinWith(sep, strs) ==
    IF strs = <<>> THEN ""
    ELSE IF Len(strs) = 1 THEN strs[1]
    ELSE strs[1] \o sep \o JoinWith(sep, Tail(strs))

Pad3(n) ==
    IF n < 10 THEN "00" \o ToString(n)
    ELSE IF n < 100 THEN "0" \o ToString(n)
    ELSE ToString(n)

\* The decimals of repr(float) for a value with at most three of them:
\* trailing zeros dropped, one digit kept.
FracDigits(f) ==
    IF f % 100 = 0 THEN ToString(f \div 100)
    ELSE IF f % 10 = 0 THEN
        (IF f < 100 THEN "0" ELSE "") \o ToString(f \div 10)
    ELSE Pad3(f)

RECURSIVE GroupThousands(_)
GroupThousands(n) ==
    IF n < 1000 THEN ToString(n)
    ELSE GroupThousands(n \div 1000) \o "," \o Pad3(n % 1000)

Abs(n) == IF n < 0 THEN -n ELSE n

Sign(n) == IF n < 0 THEN "-" ELSE ""

\* repr() of a float given in thousandths
FloatRepr(m) ==
    Sign(m) \o ToString(Abs(m) \div 1000) \o "." \o FracDigits(Abs(m) % 1000)

\* n / d rounded to the nearest integer, ties to even (n >= 0, d > 0)
RoundHalfEven(n, d) ==
    LET q == n \div d
        r == n % d
    IN  IF 2 * r > d \/ (2 * r = d /\ q % 2 = 1) THEN q + 1 ELSE q

\* The number of binary digits of n
RECURSIVE BitLength(_)
BitLength(n) == IF n = 0 THEN 0 ELSE 1 + BitLength(n \div 2)

\* r / d (r < d) with its leading zero binary digits shifted out
RECURSIVE SkipZeros(_, _)
SkipZeros(r, d) == IF r = 0 \/ 2 * r >= d THEN r ELSE SkipZeros(2 * r, d)

\* The binary expansion of r / d continued for bits digits: what is left
\* of r, and the last digit produced.  Eight or four digits are produced
\* in one step where 256 * r or 16 * r stays within 32 bits (r < d); once
\* nothing is left, every further digit is 0.
RECURSIVE ShiftRem(_, _, _, _)
ShiftRem(r, d, bits, last) ==
    IF bits = 0 THEN [r |-> r, last |-> last]
    ELSE IF r = 0 THEN [r |-> 0, last |-> 0]
    ELSE IF bits >= 8 /\ d <= 8388608
        THEN ShiftRem((256 * r) % d, d, bits - 8, ((256 * r) \div d) % 2)
    ELSE IF bits >= 4 /\ d <= 134217728
        THEN ShiftRem((16 * r) % d, d, bits - 4, ((16 * r) \div d) % 2)
    ELSE ShiftRem((2 * r) % d, d, bits - 1, (2 * r) \div d)

\* The sign of x - n / d for x the double nearest n / d (n >= 0, d > 0):
\* a double keeps 53 significant binary digits, rounded to nearest, ties
\* to the even digit.
DoubleError(n, d) ==
    LET q == n \div d
        m == IF q > 0 THEN ShiftRem(n % d, d, 53 - BitLength(q), q % 2)
             ELSE ShiftRem(SkipZeros(n % d, d), d, 53, 0)
    IN  IF m.r = 0 THEN 0
        ELSE IF 2 * m.r > d \/ (2 * m.r = d /\ m.last = 1) THEN 1
        ELSE -1

\* round(x, 1) in tenths, for x the double nearest n / (10 * d) (n >= 0,
\* d > 0): round() rounds the double itself, so n / d halfway between two
\* tenths goes the way the double lies, and to the even tenth when the
\* double is exact.
RoundTenths(n, d) ==
    IF 2 * (n % d) = d /\ DoubleError(n, 10 * d) # 0
        THEN (IF DoubleError(n, 10 * d) > 0 THEN (n \div d) + 1 ELSE n \div d)
    ELSE RoundHalfEven(n, d)

IsNumber(x) == x.k \in {"int", "float", "bool"}

\* The numeric value of an int, float or bool, in thousandths
Milli(x) ==
    CASE x.k = "int" -> x.v * 1000
      [] x.k = "bool" -> IF x.v THEN 1000 ELSE 0
      [] x.k = "float" -> x.v

\* f"{x:,}"
FormatComma(x) ==
    CASE x.k = "int" -> Ok(Sign(x.v) \o GroupThousands(Abs(x.v)))
      [] x.k = "bool" -> Ok(IF x.v THEN "1" ELSE "0")
      [] x.k = "float" ->
            Ok(Sign(x.v) \o GroupThousands(Abs(x.v) \div 1000) \o "."
               \o FracDigits(Abs(x.v) % 1000))
      [] x.k = "str" -> Raise("ValueError")
      [] OTHER -> Raise("TypeError")

\* f"{x:.3f}"
Format3f(x) ==
    CASE IsNumber(x) ->
            Ok(Sign(Milli(x)) \o ToString(Abs(Milli(x)) \div 1000) \o "."
               \o Pad3(Abs(Milli(x)) % 1000))
      [] x.k = "str" -> Raise("ValueError")
      [] OTHER -> Raise("TypeError")

\* f"{x:.1f}"
Format1f(x) ==
    CASE IsNumber(x) ->
            LET t == RoundTenths(Abs(Milli(x)), 100)
            IN  Ok(Sign(Milli(x)) \o ToString(t \div 10) \o "." \o ToString(t % 10))
      [] x.k = "str" -> Raise("ValueError")
      [] OTHER -> Raise("TypeError")

\* JSON object members are kept in this order (a dict keeps insertion
\* order; the decoder inserts the members in document order).
KeyOrder ==
    <<"error", "plate", "day", "site", "window30", "hour",
      "uniqueVehicles", "alwaysDegraded", "notAlwaysDegraded",
      "detectionsTotal", "detectionsGood", "detectionsBad", "goodRatePct",
      "status", "color", "vehicleType", "vehicleLabel", "firstDay",
      "cumMinQ", "cumMaxQ", "cumNFrames", "siteList", "minQuality",
      "maxQuality", "routeSig", "issueLabel", "foo">>

KeysInOrder(d) == SelectSeq(KeyOrder, LAMBDA key : key \in DOMAIN d.v)

\* repr(x)
RECURSIVE PyRepr(_)
PyRepr(x) ==
    CASE x.k = "null" -> "None"
      [] x.k = "bool" -> IF x.v THEN "True" ELSE "False"
      [] x.k = "int" -> ToString(x.v)
      [] x.k = "float" -> FloatRepr(x.v)
      [] x.k = "str" -> "'" \o x.v \o "'"
      [] x.k = "list" ->
            "[" \o JoinWith(", ", [i \in 1..Len(x.v) |-> PyRepr(x.v[i])])
            \o "]"
      [] x.k = "dict" ->
            LET ks == KeysInOrder(x)
            IN  "{" \o JoinWith(", ", [i \in 1..Len(ks) |->
                       "'" \o ks[i] \o "': " \o PyRepr(x.v[ks[i]])])
                \o "}"

\* f"{x}": str(x), which never raises
Format(x) == Ok(IF x.k = "str" THEN x.v ELSE PyRepr(x))

\* A literal piece of an f-string
Lit(s) == Ok(s)

\* ------------------------------------------------------------------
\* pct
\* ------------------------------------------------------------------

\* round(100.0 * part / whole, 1) of two numbers, in thousandths
PctValue(part, whole) ==
    LET n == 1000 * Milli(part)
        d == Milli(whole)
        neg == (n < 0) # (d < 0)
        t == RoundTenths(Abs(n), Abs(d))
    IN  IF neg THEN -(100 * t) ELSE 100 * t

\* pct without its test of whole: the division by a zero raises
pct_unguarded(part, whole) ==
    IF ~IsNumber(part) THEN [exc |-> "TypeError", val |-> PyNone]
    ELSE IF ~IsNumber(whole) THEN [exc |-> "TypeError", val |-> PyNone]
    ELSE IF Milli(whole) = 0 THEN [exc |-> "ZeroDivisionError", val |-> PyNone]
    ELSE [exc |-> "", val |-> PyFloat(PctValue(part, whole))]

\* pct(part, whole): the outcome [exc, val]
pct(part, whole) ==
    IF ~Truthy(whole) THEN [exc |-> "", val |-> PyFloat(0)]
    ELSE IF ~IsNumber(part) THEN [exc |-> "TypeError", val |-> PyNone]
    ELSE IF ~IsNumber(whole) THEN [exc |-> "TypeError", val |-> PyNone]
    ELSE [exc |-> "", val |-> PyFloat(PctValue(part, whole))]

\* ------------------------------------------------------------------
\* Analyzers per result type
\* ------------------------------------------------------------------

analyze_error(q, r) ==
    LET msg == Get(r, "error", PyStr("Unknown backend error."))
    IN  FString(<<
            Lit("I tried to answer your question:\n\n"),
            Lit("  \""), Lit(q), Lit("\"\n\n"),
            Lit("but the backend returned an error:\n\n"),
            Lit("  "), Format(msg), Lit("\n\n"),
            Lit("This usually means there is no data for that day/site/plate combination "),
            Lit("or the identifiers don't exist in the twin.")>>)

\* The city-level heuristic with every bound taken inclusively
CityHealthInclusive(always_pct) ==
    IF always_pct.v <= 2000 THEN "excellent"
    ELSE IF always_pct.v <= 5000 THEN "good"
    ELSE IF always_pct.v <= 10000 THEN "borderline"
    ELSE "concerning"

\* The city-level health heuristic on always_pct (a float, in thousandths)
CityHealth(always_pct) ==
    IF always_pct.v < 2000 THEN "excellent"
    ELSE IF always_pct.v < 5000 THEN "good"
    ELSE IF always_pct.v < 10000 THEN "borderline"
    ELSE "concerning"

analyze_city_totals(q, r) ==
    LET day == Get(r, "day", PyStr("?"))
        unique_veh == Get(r, "uniqueVehicles", PyInt(0))
        always_deg == Get(r, "alwaysDegraded", PyInt(0))
        not_always == Get(r, "notAlwaysDegraded", PyInt(0))
        always_pct == pct(always_deg, unique_veh)
        not_always_pct == pct(not_always, unique_veh)
    IN  IF always_pct.exc # "" THEN Raise(always_pct.exc)
        ELSE IF not_always_pct.exc # "" THEN Raise(not_always_pct.exc)
        ELSE FString(<<
            Lit("**City-wide vehicle degradation on "), Format(day), Lit("**\n\n"),
            Lit("- Unique vehicles: **"), FormatComma(unique_veh), Lit("**\n"),
            Lit("- Always degraded: **"), FormatComma(always_deg), Lit("** ("),
            Format(always_pct.val), Lit("%)\n"),
            Lit("- Not always degraded: **"), FormatComma(not_always), Lit("** ("),
            Format(not_always_pct.val), Lit("%)\n\n"),
            Lit("**Interpretation**\n"),
            Lit("- City health on this day is **"), Lit(CityHealth(always_pct.val)),
            Lit("** based on the share of always-degraded vehicles.\n"),
            Lit("- Always-degraded means the vehicle looked bad everywhere it appeared that day, "),
            Lit("which strongly suggests a **vehicle-side issue** rather than a site-only problem.\n\n"),
            Lit("If you want, you can drill into:\n"),
            Lit("- A specific site with: *\"How many degraded vehicles were at RUHSMxxx on "),
            Format(day), Lit("?\"*\n"),
            Lit("- A specific plate with: *\"Show the degradation history for plate ABC1234.\"*")>>)

\* The site-level heuristic with every bound taken inclusively
SiteHealthInclusive(always_pct) ==
    IF always_pct.v <= 2000 THEN "very healthy"
    ELSE IF always_pct.v <= 5000 THEN "healthy"
    ELSE IF always_pct.v <= 10000 THEN "borderline"
    ELSE "suspicious"

\* The site-level heuristic on always_pct (a float, in thousandths)
SiteHealth(always_pct) ==
    IF always_pct.v < 2000 THEN "very healthy"
    ELSE IF always_pct.v < 5000 THEN "healthy"
    ELSE IF always_pct.v < 10000 THEN "borderline"
    ELSE "suspicious"

SiteSystemicLines ==
    <<Lit("- A high share of always-degraded vehicles suggests something systematic at this site: alignment, illumination, or configuration."),
      Lit("- Cross-check this with trip patterns: do many of these vehicles look fine at other sites the same day?")>>

SiteNormalLines ==
    <<Lit("- Most vehicles either look fine or only occasionally degraded here, which is consistent with normal traffic and environment.")>>

\* "\n".join(lines), the lines being evaluated in order
JoinLines(lines) ==
    IF FirstExc(lines) # "" THEN Raise(FirstExc(lines))
    ELSE Ok(JoinWith("\n", [i \in 1..Len(lines) |-> lines[i].s]))

analyze_site_totals(q, r) ==
    LET day == Get(r, "day", PyStr("?"))
        site == Get(r, "site", PyStr("?"))
        unique_veh == Get(r, "uniqueVehicles", PyInt(0))
        always_deg == Get(r, "alwaysDegraded", PyInt(0))
        not_always == Get(r, "notAlwaysDegraded", PyInt(0))
        always_pct == pct(always_deg, unique_veh)
        not_always_pct == pct(not_always, unique_veh)
        site_health == SiteHealth(always_pct.val)
        lines == <<
            FString(<<Lit("**Site-level degraded vehicles -- "), Format(site),
                      Lit(" on "), Format(day), Lit("**")>>),
            Lit(""),
            FString(<<Lit("- Unique vehicles seen: **"), FormatComma(unique_veh), Lit("**")>>),
            FString(<<Lit("- Always degraded: **"), FormatComma(always_deg), Lit("** ("),
                      Format(always_pct.val), Lit("%)")>>),
            FString(<<Lit("- Not always degraded: **"), FormatComma(not_always), Lit("** ("),
                      Format(not_always_pct.val), Lit("%)")>>),
            Lit(""),
            Lit("**Interpretation**"),
            FString(<<Lit("- This site on that day looks **"), Lit(site_health),
                      Lit("** from a vehicle degradation perspective.")>>)>>
    IN  IF always_pct.exc # "" THEN Raise(always_pct.exc)
        ELSE IF not_always_pct.exc # "" THEN Raise(not_always_pct.exc)
        ELSE JoinLines(lines \o
                (IF site_health \in {"borderline", "suspicious"}
                 THEN SiteSystemicLines ELSE SiteNormalLines))

\* x >= n for a float or int bound n given in thousandths: the outcome
\* [exc, val]; comparing a non-number with a number raises TypeError.
GreaterEq(x, n) ==
    IF IsNumber(x) THEN [exc |-> "", val |-> Milli(x) >= n]
    ELSE [exc |-> "TypeError", val |-> FALSE]

\* The label derived from the good rate when the status field is missing
DerivedStatus(good_rate_pct) ==
    IF good_rate_pct.k = "null" THEN Ok("no data")
    ELSE IF GreaterEq(good_rate_pct, 90000).exc # "" THEN Raise("TypeError")
    ELSE IF GreaterEq(good_rate_pct, 90000).val THEN Ok("healthy")
    ELSE IF GreaterEq(good_rate_pct, 80000).val THEN Ok("slightly degraded")
    ELSE IF GreaterEq(good_rate_pct, 60000).val THEN Ok("borderline")
    ELSE Ok("heavily degraded")

StrongDayLine ==
    "- This looks like a strong, clean day. Any vehicle issues here are more likely to be vehicle-specific rather than a site fault."

SlightDegradationLine ==
    "- Slight degradation: some conditions (e.g., lighting at specific hours or certain lanes) may be reducing quality, but the site is broadly OK."

BorderlineLine ==
    "- Borderline performance: you should inspect **per-lane / per-hour** breakdowns to see if issues cluster at specific times or directions."

HeavyDegradationLine ==
    "- Heavy degradation: this likely indicates a **site-level problem** (alignment, focus, camera cleanliness, or configuration). This site should be prioritized for maintenance."

\* The interpretive paragraph with the lower bound of each band excluded
RateParagraphStrict(good_rate_pct) ==
    IF good_rate_pct.k = "null" THEN [exc |-> "", lines |-> <<>>]
    ELSE IF ~IsNumber(good_rate_pct) THEN [exc |-> "TypeError", lines |-> <<>>]
    ELSE IF Milli(good_rate_pct) > 90000
        THEN [exc |-> "", lines |-> <<Lit(StrongDayLine)>>]
    ELSE IF 80000 < Milli(good_rate_pct) /\ Milli(good_rate_pct) <= 90000
        THEN [exc |-> "", lines |-> <<Lit(SlightDegradationLine)>>]
    ELSE IF 60000 < Milli(good_rate_pct) /\ Milli(good_rate_pct) <= 80000
        THEN [exc |-> "", lines |-> <<Lit(BorderlineLine)>>]
    ELSE [exc |-> "", lines |-> <<Lit(HeavyDegradationLine)>>]

\* The interpretive paragraph appended for the numeric good rate: a
\* sequence of at most one line, or the TypeError of the comparison.
RateParagraph(good_rate_pct) ==
    IF good_rate_pct.k = "null" THEN [exc |-> "", lines |-> <<>>]
    ELSE IF ~IsNumber(good_rate_pct) THEN [exc |-> "TypeError", lines |-> <<>>]
    ELSE IF Milli(good_rate_pct) >= 90000
        THEN [exc |-> "", lines |-> <<Lit(StrongDayLine)>>]
    ELSE IF 80000 <= Milli(good_rate_pct) /\ Milli(good_rate_pct) < 90000
        THEN [exc |-> "", lines |-> <<Lit(SlightDegradationLine)>>]
    ELSE IF 60000 <= Milli(good_rate_pct) /\ Milli(good_rate_pct) < 80000
        THEN [exc |-> "", lines |-> <<Lit(BorderlineLine)>>]
    ELSE [exc |-> "", lines |-> <<Lit(HeavyDegradationLine)>>]

\* good_rate_pct computed from the counts whether or not the field is there
GoodRateFromCounts(r) ==
    LET total == Get(r, "detectionsTotal", PyInt(0))
        good == Get(r, "detectionsGood", PyInt(0))
    IN  IF Truthy(total) THEN pct(good, total)
        ELSE [exc |-> "", val |-> PyNone]

\* good_rate_pct after lines 183-188: the field, or pct(good, total) when
\* the field is None or absent and total is truthy
GoodRate(r) ==
    LET total == Get(r, "detectionsTotal", PyInt(0))
        good == Get(r, "detectionsGood", PyInt(0))
        field == Get(r, "goodRatePct", PyNone)
    IN  IF field.k = "null" /\ Truthy(total) THEN pct(good, total)
        ELSE [exc |-> "", val |-> field]

analyze_site_day_status(q, r) ==
    LET day == Get(r, "day", PyStr("?"))
        site == Get(r, "site", PyStr("?"))
        total == Get(r, "detectionsTotal", PyInt(0))
        good == Get(r, "detectionsGood", PyInt(0))
        bad == Get(r, "detectionsBad", PyInt(0))
        status == PyOr(Get(r, "status", PyStr("")), PyStr("unknown"))
        color == PyOr(Get(r, "color", PyStr("")), PyStr("none"))
        rate == GoodRate(r)
        good_rate_pct == rate.val
        qualitative ==
            IF status = PyStr("unknown") THEN DerivedStatus(good_rate_pct)
            ELSE Format(status)
        lines == <<
            FString(<<Lit("**Daily site health -- "), Format(site), Lit(" on "),
                      Format(day), Lit("**")>>),
            Lit(""),
            FString(<<Lit("- Total detections: **"), FormatComma(total), Lit("**")>>),
            FString(<<Lit("- Good detections: **"), FormatComma(good), Lit("**")>>),
            FString(<<Lit("- Bad detections: **"), FormatComma(bad), Lit("**")>>),
            FString(<<Lit("- Good rate: **"),
                      Format1f(IF good_rate_pct.k # "null" THEN good_rate_pct
                               ELSE PyInt(0)),
                      Lit("%**")>>),
            FString(<<Lit("- Status flag: **"), Format(status), Lit("** (color: '"),
                      Format(color), Lit("')")>>),
            Lit(""),
            Lit("**Interpretation**"),
            FString(<<Lit("- Overall this site is **"), qualitative,
                      Lit("** on that day based on the good-rate percentage.")>>)>>
        para == RateParagraph(good_rate_pct)
    IN  IF rate.exc # "" THEN Raise(rate.exc)
        ELSE IF qualitative.exc # "" THEN Raise(qualitative.exc)
        ELSE IF FirstExc(lines) # "" THEN Raise(FirstExc(lines))
        ELSE IF para.exc # "" THEN Raise(para.exc)
        ELSE JoinLines(lines \o para.lines)

VehicleSideLine ==
    "- This vehicle is consistently degraded wherever it appears. That strongly suggests a **vehicle-side issue** (dirty plate, mounting angle, damage) rather than a site-only problem."

SiteDiagnosticsLine ==
    "- This vehicle is sometimes good and sometimes bad. That typically means it's useful for **site diagnostics**: compare which sites see it with good quality versus poor quality."

VehicleClosingLine ==
    "If you want, you can ask next: \"Show all trips for this plate\" or \"Which sites does this vehicle look worst at?\""

\* The interpretive paragraph with its test inverted
VehicleInterpretationInverted(always) ==
    IF ~Truthy(always) THEN VehicleSideLine ELSE SiteDiagnosticsLine

\* The interpretive paragraph appended for the flag always (lines 269-280)
VehicleInterpretation(always) ==
    IF Truthy(always) THEN VehicleSideLine ELSE SiteDiagnosticsLine

analyze_vehicle_degrade(q, r) ==
    LET plate == Get(r, "plate", PyStr("?"))
        day == PyOr(Get(r, "day", PyNone), PyStr("latest day in index"))
        vehicle_type == Get(r, "vehicleType", PyNone)
        vehicle_label == PyOr(Get(r, "vehicleLabel", PyStr("")), PyStr("unknown type"))
        first_day == PyOr(Get(r, "firstDay", PyNone), PyStr("unknown"))
        cum_min_q == Get(r, "cumMinQ", PyFloat(0))
        cum_max_q == Get(r, "cumMaxQ", PyFloat(0))
        frames == Get(r, "cumNFrames", PyInt(0))
        always == Get(r, "alwaysDegraded", PyBool(FALSE))
        health_desc ==
            IF Truthy(always) THEN "always degraded" ELSE "not always degraded"
        lines == <<
            FString(<<Lit("**Vehicle degradation profile -- plate "), Format(plate),
                      Lit("**")>>),
            Lit(""),
            FString(<<Lit("- Vehicle type: **"), Format(vehicle_label), Lit("** (code: "),
                      Format(vehicle_type), Lit(")")>>),
            FString(<<Lit("- First seen in degraded stats: **"), Format(first_day),
                      Lit("**")>>),
            FString(<<Lit("- Latest record day: **"), Format(day), Lit("**")>>),
            FString(<<Lit("- Frames considered: **"), FormatComma(frames), Lit("**")>>),
            FString(<<Lit("- Cumulative quality range: **"), Format3f(cum_min_q),
                      Lit(" - "), Format3f(cum_max_q), Lit("**")>>),
            FString(<<Lit("- Classification: **"), Lit(health_desc), Lit("**")>>),
            Lit(""),
            Lit("**Interpretation**")>>
    IN  JoinLines(lines
                  \o <<Lit(VehicleInterpretation(always))>>
                  \o <<Lit(VehicleClosingLine)>>)

\* ------------------------------------------------------------------
\* Strings, comparison, iteration
\* ------------------------------------------------------------------

\* The printable ASCII characters in code-point order
Alphabet ==
    " !\"#$%&'()*+,-./0123456789:;<=>?@ABCDEFGHIJKLMNOPQRSTUVWXYZ[\\]^_abcdefghijklmnopqrstuvwxyz{|}~"

CharRank(c) == CHOOSE i \in 1..Len(Alphabet) : SubSeq(Alphabet, i, i) = c

\* a < b on str: lexicographic by code point
RECURSIVE StrLess(_, _)
StrLess(a, b) ==
    IF b = "" THEN FALSE
    ELSE IF a = "" THEN TRUE
    ELSE IF SubSeq(a, 1, 1) # SubSeq(b, 1, 1)
        THEN CharRank(SubSeq(a, 1, 1)) < CharRank(SubSeq(b, 1, 1))
    ELSE StrLess(SubSeq(a, 2, Len(a)), SubSeq(b, 2, Len(b)))

\* pat in s on str: the literal substring test
Contains(s, pat) ==
    \E i \in 1..(Len(s) - Len(pat) + 1) : SubSeq(s, i, i + Len(pat) - 1) = pat

\* a == b
PyEq(a, b) ==
    IF IsNumber(a) /\ IsNumber(b) THEN Milli(a) = Milli(b) ELSE a = b

\* a < b: the outcome [exc, val]
RECURSIVE PyLess(_, _)
PyLess(a, b) ==
    IF IsNumber(a) /\ IsNumber(b) THEN [exc |-> "", val |-> Milli(a) < Milli(b)]
    ELSE IF a.k = "str" /\ b.k = "str" THEN [exc |-> "", val |-> StrLess(a.v, b.v)]
    ELSE IF a.k = "list" /\ b.k = "list" THEN
        LET n == IF Len(a.v) < Len(b.v) THEN Len(a.v) ELSE Len(b.v)
            diff == {i \in 1..n : ~PyEq(a.v[i], b.v[i])}
            first == CHOOSE i \in diff : \A j \in diff : i <= j
        IN  IF diff = {} THEN [exc |-> "", val |-> Len(a.v) < Len(b.v)]
            ELSE PyLess(a.v[first], b.v[first])
    ELSE [exc |-> "TypeError", val |-> FALSE]

\* min(values) taking the greater value at each step, as max does
RECURSIVE MinFromAsMax(_, _)
MinFromAsMax(cur, rest) ==
    IF rest = <<>> THEN [exc |-> "", val |-> cur]
    ELSE LET c == PyLess(cur, Head(rest))
         IN  IF c.exc # "" THEN [exc |-> c.exc, val |-> PyNone]
             ELSE MinFromAsMax(IF c.val THEN Head(rest) ELSE cur, Tail(rest))

\* min(values) continued from the running minimum cur
RECURSIVE MinFrom(_, _)
MinFrom(cur, rest) ==
    IF rest = <<>> THEN [exc |-> "", val |-> cur]
    ELSE LET c == PyLess(Head(rest), cur)
         IN  IF c.exc # "" THEN [exc |-> c.exc, val |-> PyNone]
             ELSE MinFrom(IF c.val THEN Head(rest) ELSE cur, Tail(rest))

\* max(values) continued from the running maximum cur
RECURSIVE MaxFrom(_, _)
MaxFrom(cur, rest) ==
    IF rest = <<>> THEN [exc |-> "", val |-> cur]
    ELSE LET c == PyLess(cur, Head(rest))
         IN  IF c.exc # "" THEN [exc |-> c.exc, val |-> PyNone]
             ELSE MaxFrom(IF c.val THEN Head(rest) ELSE cur, Tail(rest))

\* "for s in x": the items, or TypeError when x is not iterable
IterItems(x) ==
    CASE x.k = "list" -> [exc |-> "", items |-> x.v]
      [] x.k = "str" ->
            [exc |-> "", items |-> [i \in 1..Len(x.v) |-> PyStr(SubSeq(x.v, i, i))]]
      [] x.k = "dict" ->
            [exc |-> "", items |->
                [i \in 1..Len(KeysInOrder(x)) |-> PyStr(KeysInOrder(x)[i])]]
      [] OTHER -> [exc |-> "TypeError", items |-> <<>>]

Hashable(x) == x.k \notin {"list", "dict"}

\* sep.join(items): every item must be a str
StrJoin(sep, items) ==
    IF \E i \in 1..Len(items) : items[i].k # "str" THEN Raise("TypeError")
    ELSE Ok(JoinWith(sep, [i \in 1..Len(items) |-> items[i].v]))

RECURSIVE InsertSorted(_, _)
InsertSorted(x, seq) ==
    IF seq = <<>> THEN <<x>>
    ELSE IF StrLess(x.v, Head(seq).v) THEN <<x>> \o seq
    ELSE <<Head(seq)>> \o InsertSorted(x, Tail(seq))

\* sorted(iter) of a sequence of str
RECURSIVE SortedStrs(_)
SortedStrs(iter) ==
    IF iter = <<>> THEN <<>>
    ELSE InsertSorted(Head(iter), SortedStrs(Tail(iter)))

\* list(sites_seen): the set in the order it is iterated, not sorted
unsorted(iter) == [exc |-> "", items |-> iter]

\* sorted(sites_seen), the set being iterated in the order iter: the outcome
\* [exc, items].  Items of a type without "<", or of mixed types, raise.
sorted(iter) ==
    IF \A i \in 1..Len(iter) : iter[i].k = "str"
        THEN [exc |-> "", items |-> SortedStrs(iter)]
    ELSE IF Len(iter) = 1 \/ \A i \in 1..Len(iter) : IsNumber(iter[i])
        THEN [exc |-> "", items |-> iter]
    ELSE [exc |-> "TypeError", items |-> <<>>]

\* pat in x tightened to an exact match on str
PyInExact(pat, x) ==
    CASE x.k = "str" -> [exc |-> "", val |-> x.v = pat]
      [] x.k = "list" ->
            [exc |-> "", val |-> \E i \in 1..Len(x.v) : x.v[i] = PyStr(pat)]
      [] x.k = "dict" -> [exc |-> "", val |-> pat \in DOMAIN x.v]
      [] OTHER -> [exc |-> "TypeError", val |-> FALSE]

\* pat in x: the outcome [exc, val]
PyIn(pat, x) ==
    CASE x.k = "str" -> [exc |-> "", val |-> Contains(x.v, pat)]
      [] x.k = "list" ->
            [exc |-> "", val |-> \E i \in 1..Len(x.v) : x.v[i] = PyStr(pat)]
      [] x.k = "dict" -> [exc |-> "", val |-> pat \in DOMAIN x.v]
      [] OTHER -> [exc |-> "TypeError", val |-> FALSE]

\* any(pat in lbl for lbl in flags): stops at the first label that matches
RECURSIVE AnyIn(_, _)
AnyIn(pat, flags) ==
    IF flags = <<>> THEN [exc |-> "", val |-> FALSE]
    ELSE LET c == PyIn(pat, Head(flags))
         IN  IF c.exc # "" \/ c.val THEN c ELSE AnyIn(pat, Tail(flags))

\* ------------------------------------------------------------------
\* analyze_trips
\* ------------------------------------------------------------------

NoTripsMessage ==
    "There are no trips matching that query.\n\nThat usually means the plate did not appear in the 30-minute trip index for that day, or it was filtered out during preprocessing."

\* trip.get("siteList", []) or []
SiteListOf(trip) == PyOr(Get(trip, "siteList", PyList(<<>>)), PyList(<<>>))

\* The exception one pass of the aggregation loop raises on a trip
\* ("" when none): trip.get on a non-dict, iterating a non-iterable
\* siteList, adding an unhashable item to the set.
TripLoopExc(trip) ==
    IF ~IsDict(trip) THEN "AttributeError"
    ELSE IF IterItems(SiteListOf(trip)).exc # "" THEN "TypeError"
    ELSE IF \E i \in 1..Len(IterItems(SiteListOf(trip)).items) :
                ~Hashable(IterItems(SiteListOf(trip)).items[i])
        THEN "TypeError"
    ELSE ""

LoopExc(trips) == FirstExc([i \in 1..Len(trips) |-> Raise(TripLoopExc(trips[i]))])

\* sites_seen filled from the first trip alone
SitesSeenFirstTrip(trips) ==
    {IterItems(SiteListOf(trips[1])).items[j] :
        j \in 1..Len(IterItems(SiteListOf(trips[1])).items)}

\* sites_seen after the loop
SitesSeen(trips) ==
    UNION {{IterItems(SiteListOf(trips[i])).items[j] :
                j \in 1..Len(IterItems(SiteListOf(trips[i])).items)} :
           i \in 1..Len(trips)}

MinQValues(trips) ==
    [i \in 1..Len(trips) |-> Get(trips[i], "minQuality", PyFloat(0))]

MaxQValues(trips) ==
    [i \in 1..Len(trips) |-> Get(trips[i], "maxQuality", PyFloat(0))]

\* issues_flags: the truthy issueLabel values, in trip order
IssuesFlags(trips) ==
    LET labels == [i \in 1..Len(trips) |-> Get(trips[i], "issueLabel", PyNone)]
    IN  SelectSeq(labels, Truthy)

\* The health judgement on global_min_q: the outcome [exc, s]
QualSummary(global_min_q) ==
    IF GreaterEq(global_min_q, 700).exc # "" THEN Raise("TypeError")
    ELSE IF GreaterEq(global_min_q, 700).val
        THEN Ok("consistently good quality across trips")
    ELSE IF GreaterEq(global_min_q, 500).val
        THEN Ok("mostly acceptable, with some weaker segments")
    ELSE IF GreaterEq(global_min_q, 300).val
        THEN Ok("mixed and often weak quality")
    ELSE Ok("frequently very poor quality")

\* One line of the trip-by-trip view, the trips numbered from 0
TripLineZeroBased(idx, trip) ==
    LET day == Get(trip, "day", PyStr("?"))
        window == Get(trip, "window30", PyStr(""))
        hour == Get(trip, "hour", PyNone)
        sites == SiteListOf(trip)
        min_q == Get(trip, "minQuality", PyFloat(0))
        max_q == Get(trip, "maxQuality", PyFloat(0))
        route == PyOr(Get(trip, "routeSig", PyStr("")), PyStr("unknown route"))
        issue_label == PyOr(Get(trip, "issueLabel", PyNone), PyStr("none"))
    IN  FString(<<
            Lit("- Trip "), Lit(ToString(idx - 1)), Lit(": day "), Format(day),
            Lit(", window "), Format(window), Lit(" (hour "), Format(hour), Lit("), "),
            Lit("route **"), Format(route), Lit("**, minQ="), Format3f(min_q),
            Lit(", maxQ="), Format3f(max_q), Lit(", "),
            Lit("sites="), StrJoin(",", IterItems(sites).items),
            Lit(", issue="), Format(issue_label)>>)

\* One line of the trip-by-trip view
TripLine(idx, trip) ==
    LET day == Get(trip, "day", PyStr("?"))
        window == Get(trip, "window30", PyStr(""))
        hour == Get(trip, "hour", PyNone)
        sites == SiteListOf(trip)
        min_q == Get(trip, "minQuality", PyFloat(0))
        max_q == Get(trip, "maxQuality", PyFloat(0))
        route == PyOr(Get(trip, "routeSig", PyStr("")), PyStr("unknown route"))
        issue_label == PyOr(Get(trip, "issueLabel", PyNone), PyStr("none"))
    IN  FString(<<
            Lit("- Trip "), Lit(ToString(idx)), Lit(": day "), Format(day),
            Lit(", window "), Format(window), Lit(" (hour "), Format(hour), Lit("), "),
            Lit("route **"), Format(route), Lit("**, minQ="), Format3f(min_q),
            Lit(", maxQ="), Format3f(max_q), Lit(", "),
            Lit("sites="), StrJoin(",", IterItems(sites).items),
            Lit(", issue="), Format(issue_label)>>)

CarIssueLine ==
    "- Trips flagged with 'car_issue_singleton' or similar usually point to **vehicle-specific problems** rather than a general site fault."

SiteIssueLine ==
    "- Any trips with 'siteIssueStrict' suggest that particular sites are dragging quality down for many vehicles, not just this one."

MixedQualityLine ==
    "- 'mixed_quality' means some frames in the trip are good and others are bad, often due to partial occlusion or transient lighting effects."

\* The issue-label interpretation appended after the trip lines: the
\* outcome [exc, lines]
IssueInterpretation(flags) ==
    LET car == AnyIn("car_issue", flags)
        site == AnyIn("site", flags)
        mixed == AnyIn("mixed", flags)
    IN  IF flags = <<>> THEN [exc |-> "", lines |-> <<>>]
        ELSE IF car.exc # "" THEN [exc |-> car.exc, lines |-> <<>>]
        ELSE IF site.exc # "" THEN [exc |-> site.exc, lines |-> <<>>]
        ELSE IF mixed.exc # "" THEN [exc |-> mixed.exc, lines |-> <<>>]
        ELSE [exc |-> "", lines |->
                <<Lit(""), Lit("**Issue label interpretation**")>>
                \o (IF car.val THEN <<Lit(CarIssueLine)>> ELSE <<>>)
                \o (IF site.val THEN <<Lit(SiteIssueLine)>> ELSE <<>>)
                \o (IF mixed.val THEN <<Lit(MixedQualityLine)>> ELSE <<>>)]

\* The list lines as first assigned: the summary of the trips and the
\* heading of the trip-by-trip view.  iter is the order in which the set
\* sites_seen is iterated.
SummaryLines(plate, n_trips, sites_seen, global_min_q, global_max_q, qual_summary, iter) ==
    LET site_names == sorted(iter)
    IN  <<
            FString(<<Lit("**Trip summary for plate "), Format(plate), Lit("**")>>),
            Lit(""),
            FString(<<Lit("- Number of trips: **"), Lit(ToString(n_trips)), Lit("**")>>),
            FString(<<Lit("- Distinct sites visited: **"),
                      Lit(ToString(Cardinality(sites_seen))), Lit("** ("),
                      (IF site_names.exc # "" THEN Raise(site_names.exc)
                       ELSE StrJoin(", ", site_names.items)),
                      Lit(")")>>),
            FString(<<Lit("- Overall min quality across trips: **"),
                      Format3f(global_min_q), Lit("**")>>),
            FString(<<Lit("- Overall max quality across trips: **"),
                      Format3f(global_max_q), Lit("**")>>),
            FString(<<Lit("- Quality summary: **"), qual_summary, Lit("**")>>),
            Lit(""),
            Lit("**Trip-by-trip view**")>>

\* analyze_trips; iter is the order in which the set sites_seen is iterated
analyze_trips(q, r, iter) ==
    LET trips == r.v
        n_trips == Len(trips)
        plate == Get(trips[1], "plate", PyStr("unknown plate"))
        sites_seen == SitesSeen(trips)
        global_min_q == MinFrom(MinQValues(trips)[1], Tail(MinQValues(trips)))
        global_max_q == MaxFrom(MaxQValues(trips)[1], Tail(MaxQValues(trips)))
        qual_summary == QualSummary(global_min_q.val)
        lines == SummaryLines(plate, n_trips, sites_seen, global_min_q.val,
                              global_max_q.val, qual_summary, iter)
        trip_lines == [i \in 1..n_trips |-> TripLine(i, trips[i])]
        issues == IssueInterpretation(IssuesFlags(trips))
    IN  IF n_trips = 0 THEN Ok(NoTripsMessage)
        ELSE IF ~IsDict(trips[1]) THEN Raise("AttributeError")
        ELSE IF LoopExc(trips) # "" THEN Raise(LoopExc(trips))
        ELSE IF global_min_q.exc # "" THEN Raise(global_min_q.exc)
        ELSE IF global_max_q.exc # "" THEN Raise(global_max_q.exc)
        ELSE IF qual_summary.exc # "" THEN Raise(qual_summary.exc)
        ELSE IF FirstExc(lines) # "" THEN Raise(FirstExc(lines))
        ELSE IF FirstExc(trip_lines) # "" THEN Raise(FirstExc(trip_lines))
        ELSE IF issues.exc # "" THEN Raise(issues.exc)
        ELSE JoinLines(lines \o trip_lines \o issues.lines)

\* ------------------------------------------------------------------
\* Public entrypoint
\* ------------------------------------------------------------------

FallbackMessage(q, r) ==
    FString(<<
        Lit("I received data from the backend, but I don't recognize its structure.\n\n"),
        Lit("Question was:\n  \""), Lit(q), Lit("\"\n\n"),
        Lit("Raw result:\n"), Format(r)>>)

\* analyze_result without the route to analyze_trips
analyze_result_trips_unrouted(q, r, iter) ==
    LET rt == detect_result_type(r)
    IN  IF rt = "error" THEN analyze_error(q, r)
        ELSE IF rt = "city_totals" THEN analyze_city_totals(q, r)
        ELSE IF rt = "site_totals" THEN analyze_site_totals(q, r)
        ELSE IF rt = "site_day_status" THEN analyze_site_day_status(q, r)
        ELSE IF rt = "vehicle_degrade" THEN analyze_vehicle_degrade(q, r)
        ELSE FallbackMessage(q, r)

analyze_result(q, r, iter) ==
    LET rt == detect_result_type(r)
    IN  IF rt = "error" THEN analyze_error(q, r)
        ELSE IF rt = "city_totals" THEN analyze_city_totals(q, r)
        ELSE IF rt = "site_totals" THEN analyze_site_totals(q, r)
        ELSE IF rt = "site_day_status" THEN analyze_site_day_status(q, r)
        ELSE IF rt = "vehicle_degrade" THEN analyze_vehicle_degrade(q, r)
        ELSE IF rt = "trips" THEN analyze_trips(q, r, iter)
        ELSE FallbackMessage(q, r)

\* ------------------------------------------------------------------
\* Inputs: questions and backend payloads
\* ------------------------------------------------------------------

\* The longest payload list, and the invocations made on one input
MaxTrips == 2

MaxCalls == 2

Questions == {"How healthy is RUHSM173 on 2025-08-16?", ""}

Restrict(f, ks) == PyDict([key \in ks |-> f[key]])

With(f, key, val) ==
    PyDict([kk \in DOMAIN f \cup {key} |-> IF kk = key THEN val ELSE f[kk]])

\* The keys the mapping signatures test
ShapeKeys ==
    {"error", "uniqueVehicles", "site", "detectionsTotal", "detectionsGood",
     "detectionsBad", "plate", "cumNFrames"}

ShapeSample ==
    [error |-> PyStr("No data for day 2025-08-16"),
     uniqueVehicles |-> PyInt(1000),
     site |-> PyStr("RUHSM173"),
     detectionsTotal |-> PyInt(1000),
     detectionsGood |-> PyInt(950),
     detectionsBad |-> PyInt(50),
     plate |-> PyStr("ABC123"),
     cumNFrames |-> PyInt(40)]

CityFull ==
    [day |-> PyStr("2025-08-16"), uniqueVehicles |-> PyInt(1000),
     alwaysDegraded |-> PyInt(15), notAlwaysDegraded |-> PyInt(985)]

SiteFull ==
    [day |-> PyStr("2025-08-16"), site |-> PyStr("RUHSM173"),
     uniqueVehicles |-> PyInt(400), alwaysDegraded |-> PyInt(30),
     notAlwaysDegraded |-> PyInt(370)]

StatusFull ==
    [day |-> PyStr("2025-08-16"), site |-> PyStr("RUHSM173"),
     detectionsTotal |-> PyInt(1000), detectionsGood |-> PyInt(950),
     detectionsBad |-> PyInt(50), goodRatePct |-> PyFloat(95000),
     status |-> PyStr("healthy"), color |-> PyStr("green")]

VehicleFull ==
    [plate |-> PyStr("ABC123"), day |-> PyStr("2025-08-16"),
     vehicleType |-> PyInt(3), vehicleLabel |-> PyStr("truck"),
     firstDay |-> PyStr("2025-08-01"), cumMinQ |-> PyFloat(100),
     cumMaxQ |-> PyFloat(300), cumNFrames |-> PyInt(40),
     alwaysDegraded |-> PyBool(TRUE)]

TripA ==
    [plate |-> PyStr("ABC123"), day |-> PyStr("2025-08-16"),
     window30 |-> PyStr("08:30"), hour |-> PyInt(8),
     siteList |-> PyList(<<PyStr("RUHSM173"), PyStr("RUHSM002")>>),
     minQuality |-> PyFloat(720), maxQuality |-> PyFloat(910),
     routeSig |-> PyStr("RUHSM173>RUHSM002"),
     issueLabel |-> PyStr("car_issue_singleton")]

TripB ==
    [plate |-> PyStr("ABC123"), day |-> PyStr("2025-08-16"),
     window30 |-> PyStr("17:00"), hour |-> PyInt(17),
     siteList |-> PyList(<<PyStr("RUHSM010"), PyStr("RUHSM002")>>),
     minQuality |-> PyFloat(350), maxQuality |-> PyFloat(640),
     routeSig |-> PyStr(""),
     issueLabel |-> PyStr("onsite_mixed")]

\* Values of the wrong type or with no content, put in place of a field
BadValues ==
    {PyNone, PyStr("abc"), PyStr(""), PyList(<<>>), PyList(<<PyInt(1)>>),
     PyDict(EmptyMap), PyBool(TRUE), PyInt(0), PyFloat(250)}

\* Every subset of the signature keys
ShapeDicts == {Restrict(ShapeSample, ks) : ks \in SUBSET ShapeKeys}

\* A full payload with any subset of the fields in opt absent
Partial(full, opt) ==
    {Restrict(full, DOMAIN full \ absent) : absent \in SUBSET opt}

\* A full payload with one field replaced by a bad value
Malformed(full) ==
    {With(full, key, b) : key \in DOMAIN full, b \in BadValues}

PartialDicts ==
    Partial(CityFull, {"day", "alwaysDegraded", "notAlwaysDegraded"})
    \cup Partial(SiteFull, {"day", "alwaysDegraded", "notAlwaysDegraded"})
    \cup Partial(StatusFull, {"day", "site", "goodRatePct", "status", "color"})
    \cup Partial(VehicleFull,
                 {"day", "vehicleType", "vehicleLabel", "firstDay", "cumMinQ",
                  "cumMaxQ", "alwaysDegraded"})

MalformedDicts ==
    Malformed(CityFull) \cup Malformed(SiteFull) \cup Malformed(StatusFull)
    \cup Malformed(VehicleFull)

OtherDicts ==
    {PyDict([foo |-> PyStr("bar")]),
     Restrict(TripA, TripKeys),
     Restrict(StatusFull, DOMAIN StatusFull \ {"detectionsBad"})}
    \cup {With(full, "error", b) :
              full \in {EmptyMap, CityFull, SiteFull, StatusFull, VehicleFull,
                        TripA},
              b \in BadValues}

\* Totals of u vehicles of which a are always degraded
CityOf(u, a) ==
    PyDict([day |-> PyStr("2025-08-16"), uniqueVehicles |-> PyInt(u),
            alwaysDegraded |-> PyInt(a), notAlwaysDegraded |-> PyInt(u - a)])

SiteOf(u, a) == With(CityOf(u, a).v, "site", PyStr("RUHSM173"))

\* Always-degraded counts out of 1000 on both sides of each threshold of
\* the health labels, and out of 2000 halfway between two tenths of a
\* percent next to a threshold
RateCounts == {0, 15, 19, 20, 21, 49, 50, 51, 99, 100, 101, 150}

HalfwayCounts == {39, 99, 199}

RateDicts ==
    {CityOf(1000, a) : a \in RateCounts}
    \cup {CityOf(2000, a) : a \in HalfwayCounts}
    \cup {SiteOf(1000, a) : a \in RateCounts}
    \cup {SiteOf(2000, a) : a \in HalfwayCounts}
    \cup {CityOf(0, 0), SiteOf(0, 0)}

\* A day of a site with good detections out of total, without the
\* optional fields
StatusOf(total, good) ==
    PyDict([day |-> PyStr("2025-08-16"), site |-> PyStr("RUHSM173"),
            detectionsTotal |-> PyInt(total), detectionsGood |-> PyInt(good),
            detectionsBad |-> PyInt(total - good)])

\* Good detections out of 1000 on both sides of each band of the good
\* rate, and out of 2000 halfway between two tenths of a percent
GoodCounts == {0, 599, 600, 601, 799, 800, 801, 899, 900, 901, 950, 1000}

HalfwayGoodCounts == {1199, 1599, 1799}

\* Values of goodRatePct: floats in thousandths, ints, null
GoodRates ==
    {PyFloat(m) : m \in {0, 59900, 59950, 60000, 79900, 79950, 80000, 89900,
                         89950, 90000, 95000, 100000}}
    \cup {PyInt(60), PyInt(80), PyInt(90), PyNone}

\* Values of status: a label of the backend, another string, the word the
\* formatter shows for a missing status, the empty string, null
StatusValues ==
    {PyStr("healthy"), PyStr("degraded"), PyStr("unknown"), PyStr(""), PyNone}

StatusBases ==
    {StatusOf(1000, g) : g \in GoodCounts}
    \cup {StatusOf(2000, g) : g \in HalfwayGoodCounts}
    \cup {StatusOf(0, 0)}
    \cup {With(StatusOf(t, 500).v, "goodRatePct", x) :
              t \in {0, 1000}, x \in GoodRates}

\* Each base as it is, with a status, and with a status and a color
StatusDicts ==
    StatusBases
    \cup {With(b.v, "status", st) : b \in StatusBases, st \in StatusValues}
    \cup {With(With(b.v, "status", PyStr("healthy")).v, "color", PyStr("green")) :
              b \in StatusBases}

\* Vehicle payloads, bare and full, with the flag alwaysDegraded true and
\* false
VehicleDicts ==
    {With(v, "alwaysDegraded", PyBool(b)) :
        v \in {VehicleFull, [plate |-> PyStr("ABC123"), cumNFrames |-> PyInt(40)]},
        b \in BOOLEAN}

SeqsUpTo(elems, n) == UNION {[1..len -> elems] : len \in 0..n}

\* A trip with the quality range lo..hi (in thousandths)
TripOf(lo, hi) ==
    PyDict([plate |-> PyStr("ABC123"), day |-> PyStr("2025-08-16"),
            window30 |-> PyStr("08:30"), minQuality |-> PyFloat(lo),
            maxQuality |-> PyFloat(hi)])

\* Trips whose minimum is on either side of each threshold of the quality
\* summary, and trips without minQuality or without maxQuality
QualityTrips ==
    {TripOf(700, 700), TripOf(699, 950), TripOf(500, 640), TripOf(499, 1000),
     TripOf(300, 300), TripOf(299, 299),
     Restrict(TripOf(0, 800).v, {"plate", "day", "window30", "maxQuality"}),
     Restrict(TripOf(720, 0).v, {"plate", "day", "window30", "minQuality"})}

QualityLists ==
    {PyList(items) : items \in SeqsUpTo(QualityTrips, MaxTrips) \ {<<>>}}

\* Issue labels: the three the formatter explains, one that holds "site"
\* inside a word, one that holds none of the substrings, the empty label
IssueLabels ==
    {"car_issue_singleton", "siteIssueStrict", "mixed_quality", "onsite",
     "ok", ""}

\* A trip with each issue label, and one without the field
LabelTrips ==
    {With(TripOf(720, 910).v, "issueLabel", PyStr(label)) : label \in IssueLabels}
    \cup {TripOf(720, 910)}

LabelLists ==
    {PyList(items) : items \in SeqsUpTo(LabelTrips, MaxTrips) \ {<<>>}}

Scalars ==
    {PyNone, PyBool(TRUE), PyBool(FALSE), PyInt(0), PyInt(7), PyFloat(500),
     PyStr(""), PyStr("error")}

TripOptional ==
    {"hour", "siteList", "minQuality", "maxQuality", "routeSig", "issueLabel"}

\* The elements the bounded lists are built from
ListElems ==
    {PyDict(TripA), PyDict(TripB), Restrict(TripA, TripKeys),
     Restrict(TripA, {"plate", "day"}), PyDict(EmptyMap), PyInt(5), PyNone,
     PyStr("plate")}


ListPayloads ==
    {PyList(items) : items \in SeqsUpTo(ListElems, MaxTrips)}
    \cup {PyList(<<t>>) : t \in Partial(TripA, TripOptional)}
    \cup {PyList(<<t>>) : t \in Malformed(TripA)}
    \cup {PyList(<<PyDict(TripB), t>>) : t \in Malformed(TripA)}
    \cup {PyList(<<PyDict(TripA), Restrict(TripB, DOMAIN TripB \ {key})>>) :
              key \in DOMAIN TripB}

Payloads ==
    ShapeDicts \cup PartialDicts \cup MalformedDicts \cup OtherDicts
    \cup RateDicts \cup StatusDicts \cup VehicleDicts \cup Scalars
    \cup ListPayloads \cup QualityLists \cup LabelLists

\* ------------------------------------------------------------------
\* The state machine: one (question, result) pair, classified and
\* analyzed
\* ------------------------------------------------------------------

Perms(S) ==
    {f \in [1..Cardinality(S) -> S] :
        \A i, j \in 1..Cardinality(S) : i # j => f[i] # f[j]}

\* The orders in which sorted() may find the set sites_seen
IterOrders(r) ==
    IF IsList(r) /\ Len(r.v) > 0 /\ detect_result_type(r) = "trips"
       /\ LoopExc(r.v) = ""
        THEN Perms(SitesSeen(r.v))
    ELSE {<<>>}

Init ==
    /\ question \in Questions
    /\ result \in Payloads
    /\ rtype = ""
    /\ outs = <<>>
    /\ AnalyzeRestIdle

\* rtype = detect_result_type(result)
DetectResultType ==
    /\ rtype = ""
    /\ rtype' = detect_result_type(result)
    /\ UNCHANGED <<question, result, outs>>
    /\ UNCHANGED analyzeRest

\* analyze_result(question, result), its outcome appended to outs
AnalyzeResult ==
    /\ Len(outs) < MaxCalls
    /\ \E iter \in IterOrders(result) :
            outs' = Append(outs, analyze_result(question, result, iter))
    /\ UNCHANGED <<question, result, rtype>>
    /\ UNCHANGED analyzeRest

Next == DetectResultType \/ AnalyzeResult

Spec == Init /\ [][Next]_vars

\* ------------------------------------------------------------------
\* pct on its own: one call on one (part, whole) pair
\* ------------------------------------------------------------------

\* The largest count tried as part and as whole
MaxPart == 12

MaxWhole == 12

\* Counts, the totals of the documented scenarios, floats that a double
\* holds exactly, and values of other types
PctParts ==
    {PyInt(n) : n \in -2..MaxPart}
    \cup {PyInt(15), PyInt(30), PyInt(985), PyFloat(250), PyFloat(500),
          PyBool(TRUE), PyBool(FALSE), PyNone, PyStr("abc"), PyList(<<>>)}

PctWholes ==
    {PyInt(n) : n \in -2..MaxWhole}
    \cup {PyInt(400), PyInt(1000), PyInt(2000), PyFloat(0), PyFloat(250),
          PyBool(TRUE), PyBool(FALSE), PyNone, PyStr(""), PyStr("abc"),
          PyList(<<>>), PyList(<<PyInt(1)>>), PyDict(EmptyMap)}

InitPct ==
    /\ pctPart \in PctParts
    /\ pctWhole \in PctWholes
    /\ pctOut = NotCalled
    /\ PctRestIdle

\* pctOut = pct(pctPart, pctWhole)
Pct ==
    /\ pctOut = NotCalled
    /\ pctOut' = pct(pctPart, pctWhole)
    /\ UNCHANGED <<pctPart, pctWhole>>
    /\ UNCHANGED pctRest

NextPct == Pct

SpecPct == InitPct /\ [][NextPct]_vars

\* ------------------------------------------------------------------
\* Properties
\* ------------------------------------------------------------------

Classified == rtype # ""

\* The result matches none of the five mapping signatures
NoMappingSignature(r) ==
    /\ ~Has(r, "error")
    /\ ~Has(r, "uniqueVehicles")
    /\ ~({"detectionsTotal", "detectionsGood", "detectionsBad"} \subseteq Keys(r))
    /\ ~(Has(r, "plate") /\ Has(r, "cumNFrames"))

\* The first element of a non-empty list is a mapping with plate, day and
\* window30
FirstIsTrip(r) ==
    /\ IsDict(r.v[1])
    /\ {"plate", "day", "window30"} \subseteq Keys(r.v[1])

\* C1: detect_result_type is total: whatever the JSON value (mapping,
\* sequence, scalar, null, malformed or partial), the label returned is one
\* of the seven categories, and no exception comes out in its place.
C1_DetectTotal == Classified => rtype \in Categories

\* A malformed sequence (its first element is no mapping) has been
\* classified.
C1_Witness ==
    /\ Classified
    /\ IsList(result)
    /\ Len(result.v) > 0
    /\ ~IsDict(result.v[1])
    /\ rtype = "unknown"

\* C2: a mapping with the key error is classified error whatever its other
\* keys and whatever the value of error, and analyze_result returns what
\* the error formatter returns for it.
C2_ErrorPrecedence ==
    (IsDict(result) /\ Has(result, "error")) =>
        /\ Classified => rtype = "error"
        /\ \A i \in 1..Len(outs) : outs[i] = analyze_error(question, result)

\* A mapping with error beside the keys of other signatures has been
\* classified and analyzed.
C2_Witness ==
    /\ IsDict(result)
    /\ {"error", "uniqueVehicles", "site", "plate", "cumNFrames"} \subseteq Keys(result)
    /\ DetectionsKeys \subseteq Keys(result)
    /\ rtype = "error"
    /\ Len(outs) > 0

\* C3: analyze_result never raises: every invocation returns a string.
C3_NeverRaises == \A i \in 1..Len(outs) : outs[i].exc = ""

\* C4 as stated: every mapping with uniqueVehicles is site_totals iff it
\* has site, and city_totals otherwise.
C4_Original ==
    (Classified /\ IsDict(result) /\ Has(result, "uniqueVehicles")) =>
        /\ rtype = "site_totals" <=> Has(result, "site")
        /\ ~Has(result, "site") => rtype = "city_totals"

\* C4, amended: every mapping with uniqueVehicles and without error is
\* site_totals iff it has site, and city_totals otherwise.
C4_TotalsBySite ==
    (Classified /\ IsDict(result) /\ Has(result, "uniqueVehicles")
     /\ ~Has(result, "error")) =>
        /\ rtype = "site_totals" <=> Has(result, "site")
        /\ ~Has(result, "site") => rtype = "city_totals"

\* A mapping with uniqueVehicles and site beside the keys of the vehicle
\* signature has been classified.
C4_Witness ==
    /\ Classified
    /\ IsDict(result)
    /\ Has(result, "uniqueVehicles")
    /\ ~Has(result, "error")
    /\ Has(result, "site")
    /\ Has(result, "plate")
    /\ rtype = "site_totals"

\* C5: a mapping with the three detections keys and neither error nor
\* uniqueVehicles is site_day_status, also when plate and cumNFrames are
\* present.
C5_SiteDayStatus ==
    (Classified /\ IsDict(result)
     /\ {"detectionsTotal", "detectionsGood", "detectionsBad"} \subseteq Keys(result)
     /\ ~Has(result, "error") /\ ~Has(result, "uniqueVehicles")) =>
        rtype = "site_day_status"

C5_Witness ==
    /\ Classified
    /\ IsDict(result)
    /\ {"detectionsTotal", "detectionsGood", "detectionsBad", "plate",
        "cumNFrames"} \subseteq Keys(result)
    /\ rtype = "site_day_status"

\* C6: a mapping with plate and cumNFrames that has no error key, no
\* uniqueVehicles key and not all three detections keys is vehicle_degrade.
C6_VehicleDegrade ==
    (Classified /\ IsDict(result)
     /\ Has(result, "plate") /\ Has(result, "cumNFrames")
     /\ ~Has(result, "error") /\ ~Has(result, "uniqueVehicles")
     /\ ~({"detectionsTotal", "detectionsGood", "detectionsBad"} \subseteq Keys(result))) =>
        rtype = "vehicle_degrade"

\* A vehicle mapping carrying two of the three detections keys and no
\* cumMinQ has been classified.
C6_Witness ==
    /\ Classified
    /\ IsDict(result)
    /\ {"plate", "cumNFrames", "detectionsTotal", "detectionsGood"} \subseteq Keys(result)
    /\ ~Has(result, "cumMinQ")
    /\ rtype = "vehicle_degrade"

\* C7: a sequence whose first element is a mapping with plate, day and
\* window30 is trips whatever its other elements; so is the empty sequence.
C7_Trips ==
    (Classified /\ IsList(result)) =>
        /\ Len(result.v) = 0 => rtype = "trips"
        /\ (Len(result.v) > 0 /\ FirstIsTrip(result)) => rtype = "trips"

\* A sequence with a trip first and a non-mapping after it has been
\* classified trips.
C7_Witness ==
    /\ Classified
    /\ IsList(result)
    /\ Len(result.v) > 1
    /\ FirstIsTrip(result)
    /\ ~IsDict(result.v[2])
    /\ rtype = "trips"

\* C8: scalars, null, non-empty sequences whose first element is no trip
\* mapping, and mappings matching no signature are unknown.
C8_Unknown ==
    Classified =>
        /\ (~IsDict(result) /\ ~IsList(result)) => rtype = "unknown"
        /\ (IsList(result) /\ Len(result.v) > 0 /\ ~FirstIsTrip(result)) =>
                rtype = "unknown"
        /\ (IsDict(result) /\ NoMappingSignature(result)) => rtype = "unknown"

\* A mapping with one key of the vehicle signature only has been
\* classified unknown.
C8_Witness ==
    /\ Classified
    /\ IsDict(result)
    /\ Has(result, "plate")
    /\ ~Has(result, "cumNFrames")
    /\ NoMappingSignature(result)
    /\ rtype = "unknown"

StrFields ==
    {"error", "plate", "day", "site", "window30", "status", "color",
     "vehicleLabel", "firstDay", "routeSig", "issueLabel", "foo"}

NumberFields ==
    {"uniqueVehicles", "alwaysDegraded", "notAlwaysDegraded",
     "detectionsTotal", "detectionsGood", "detectionsBad", "goodRatePct",
     "cumMinQ", "cumMaxQ", "cumNFrames", "minQuality", "maxQuality", "hour",
     "vehicleType"}

\* The value is of the type the backend documents for the field
FieldTyped(key, x) ==
    IF key \in StrFields THEN x.k = "str"
    ELSE IF key = "alwaysDegraded" THEN x.k \in {"bool", "int"}
    ELSE IF key \in NumberFields THEN x.k \in {"int", "float"}
    ELSE IF key = "siteList"
        THEN x.k = "list" /\ \A i \in 1..Len(x.v) : x.v[i].k = "str"
    ELSE TRUE

MappingTyped(d) == IsDict(d) /\ \A key \in Keys(d) : FieldTyped(key, d.v[key])

\* A payload whose fields, where present, hold values of their types
WellTyped(r) ==
    IF IsList(r) THEN \A i \in 1..Len(r.v) : MappingTyped(r.v[i])
    ELSE MappingTyped(r)

FillMissing(d, defaults) ==
    PyDict([key \in Keys(d) \cup DOMAIN defaults |->
                IF Has(d, key) THEN d.v[key] ELSE defaults[key]])

TotalsDefaults ==
    [day |-> PyStr("?"), alwaysDegraded |-> PyInt(0),
     notAlwaysDegraded |-> PyInt(0)]

StatusDefaults ==
    [day |-> PyStr("?"), site |-> PyStr("?"), goodRatePct |-> PyNone,
     status |-> PyStr(""), color |-> PyStr("")]

VehicleDefaults ==
    [day |-> PyNone, vehicleType |-> PyNone, vehicleLabel |-> PyStr(""),
     firstDay |-> PyNone, cumMinQ |-> PyFloat(0), cumMaxQ |-> PyFloat(0),
     alwaysDegraded |-> PyBool(FALSE)]

FirstTripDefaults ==
    [hour |-> PyNone, siteList |-> PyList(<<>>), minQuality |-> PyFloat(0),
     maxQuality |-> PyFloat(0), routeSig |-> PyStr(""), issueLabel |-> PyNone]

LaterTripDefaults ==
    [day |-> PyStr("?"), window30 |-> PyStr(""), hour |-> PyNone,
     siteList |-> PyList(<<>>), minQuality |-> PyFloat(0),
     maxQuality |-> PyFloat(0), routeSig |-> PyStr(""), issueLabel |-> PyNone]

\* The payload with every absent optional field of its category set to the
\* zero, blank or placeholder the category documents for it
WithDefaults(r) ==
    IF IsDict(r) /\ Has(r, "error") THEN r
    ELSE IF IsDict(r) /\ Has(r, "uniqueVehicles") THEN FillMissing(r, TotalsDefaults)
    ELSE IF IsDict(r) /\ DetectionsKeys \subseteq Keys(r) THEN FillMissing(r, StatusDefaults)
    ELSE IF IsDict(r) /\ Has(r, "plate") /\ Has(r, "cumNFrames")
        THEN FillMissing(r, VehicleDefaults)
    ELSE IF IsList(r) /\ Len(r.v) > 0 /\ FirstIsTrip(r) THEN
        PyList([i \in 1..Len(r.v) |->
                    IF ~IsDict(r.v[i]) THEN r.v[i]
                    ELSE IF i = 1 THEN FillMissing(r.v[i], FirstTripDefaults)
                    ELSE FillMissing(r.v[i], LaterTripDefaults)])
    ELSE r

Recognized(r) ==
    \/ IsDict(r) /\ ~NoMappingSignature(r)
    \/ IsList(r) /\ (Len(r.v) = 0 \/ FirstIsTrip(r))

TotalsShape(r) == IsDict(r) /\ Has(r, "uniqueVehicles") /\ ~Has(r, "error")

StatusShape(r) ==
    /\ IsDict(r)
    /\ {"detectionsTotal", "detectionsGood", "detectionsBad"} \subseteq Keys(r)
    /\ ~Has(r, "error")
    /\ ~Has(r, "uniqueVehicles")

VehicleShape(r) ==
    /\ IsDict(r)
    /\ Has(r, "plate") /\ Has(r, "cumNFrames")
    /\ ~Has(r, "error")
    /\ ~Has(r, "uniqueVehicles")
    /\ ~({"detectionsTotal", "detectionsGood", "detectionsBad"} \subseteq Keys(r))

TripsShape(r) == IsList(r) /\ Len(r.v) > 0 /\ FirstIsTrip(r)

\* The lines of a report, in order: the text between its line breaks
SplitLines(s) ==
    LET breaks == {p \in 1..Len(s) : SubSeq(s, p, p) = "\n"}
        count == Cardinality(breaks)
        Break(j) == CHOOSE p \in breaks : Cardinality({o \in breaks : o < p}) = j - 1
        First(j) == IF j = 1 THEN 1 ELSE Break(j - 1) + 1
        Last(j) == IF j = count + 1 THEN Len(s) ELSE Break(j) - 1
    IN  [j \in 1..(count + 1) |-> SubSeq(s, First(j), Last(j))]

\* The lines of a report after its first n lines
LinesAfter(s, n) ==
    LET lines == SplitLines(s) IN SubSeq(lines, n + 1, Len(lines))

\* The report s of payload r shows the zero, blank or placeholder of each
\* optional field that r lacks
ShowsPlaceholders(r, s) ==
    /\ (TotalsShape(r) /\ ~Has(r, "day")) => Contains(s, " on ?**")
    /\ (TotalsShape(r) /\ ~Has(r, "alwaysDegraded")) =>
            Contains(s, "- Always degraded: **0** (0.0%)")
    /\ (TotalsShape(r) /\ ~Has(r, "notAlwaysDegraded")) =>
            Contains(s, "- Not always degraded: **0** (0.0%)")
    /\ (StatusShape(r) /\ ~Has(r, "site")) => Contains(s, "health -- ? on ")
    /\ (StatusShape(r) /\ ~Has(r, "status")) =>
            Contains(s, "- Status flag: **unknown**")
    /\ (StatusShape(r) /\ ~Has(r, "color")) => Contains(s, "(color: 'none')")
    /\ (VehicleShape(r) /\ ~Has(r, "day")) =>
            Contains(s, "- Latest record day: **latest day in index**")
    /\ (VehicleShape(r) /\ ~Has(r, "vehicleLabel")) =>
            Contains(s, "- Vehicle type: **unknown type**")
    /\ (VehicleShape(r) /\ ~Has(r, "vehicleType")) => Contains(s, "(code: None)")
    /\ (VehicleShape(r) /\ ~Has(r, "firstDay")) =>
            Contains(s, "- First seen in degraded stats: **unknown**")
    /\ (VehicleShape(r) /\ ~Has(r, "cumMinQ")) => Contains(s, "range: **0.000 - ")
    /\ (VehicleShape(r) /\ ~Has(r, "cumMaxQ")) => Contains(s, " - 0.000**")
    /\ (VehicleShape(r) /\ ~Has(r, "alwaysDegraded")) =>
            Contains(s, "- Classification: **not always degraded**")
    /\ TripsShape(r) =>
        LET lines == SplitLines(s)
        IN  \A n \in 1..Len(r.v) :
            LET line == "- Trip " \o ToString(n) \o ": "
                text == lines[9 + n]
            IN  /\ SubSeq(text, 1, Len(line)) = line
                /\ ~Has(r.v[n], "day") => Contains(text, ": day ?, ")
                /\ ~Has(r.v[n], "hour") => Contains(text, "(hour None)")
                /\ ~Has(r.v[n], "routeSig") => Contains(text, "route **unknown route**")
                /\ ~Has(r.v[n], "minQuality") => Contains(text, "minQ=0.000,")
                /\ ~Has(r.v[n], "maxQuality") => Contains(text, "maxQ=0.000,")
                /\ ~Has(r.v[n], "siteList") => Contains(text, "sites=, issue=")
                /\ ~Has(r.v[n], "issueLabel") => Contains(text, "issue=none")

\* C9: in a payload of a recognized category an absent optional field is
\* read as its default: the report is the one of the payload with the
\* defaults written out and shows the zero, blank or placeholder of the
\* field; and when the fields present are of their types the formatter
\* returns a report and does not raise.
C9_AbsentFieldsDefault ==
    Recognized(result) =>
        \A out \in {outs[i] : i \in 1..Len(outs)} :
            /\ \E iter \in IterOrders(WithDefaults(result)) :
                    out = analyze_result(question, WithDefaults(result), iter)
            /\ WellTyped(result) => out.exc = ""
            /\ out.exc = "" => ShowsPlaceholders(result, out.s)

\* A vehicle payload with only its signature keys, and a trips payload
\* whose trips lack optional fields, have been rendered.
C9_Witness ==
    /\ Len(outs) > 0
    /\ outs[1].exc = ""
    /\ WellTyped(result)
    /\ WithDefaults(result) # result
    /\ \/ IsDict(result) /\ Keys(result) = {"plate", "cumNFrames"}
       \/ IsList(result) /\ Len(result.v) > 1 /\ FirstIsTrip(result)
          /\ ~Has(result.v[2], "siteList")

\* The calls whose outcome no earlier call produced: a property of the
\* outcomes holds of every call as soon as it holds of these.
FirstOutputs ==
    {i \in 1..Len(outs) : \A j \in 1..(i - 1) : outs[j] # outs[i]}

\* C10: analyze_result is deterministic: the invocations made with one
\* (question, payload) return the same string, in whatever order the set
\* of sites is iterated.
C10_Deterministic ==
    \A i, j \in 1..Len(outs) : outs[i] = outs[j]

\* A trips payload with several distinct sites, and the unknown fallback,
\* have been rendered twice.
C10_Witness ==
    /\ Len(outs) >= 2
    /\ outs[1].exc = ""
    /\ IsList(result)
    /\ Len(result.v) > 0
    /\ rtype = "trips"
    /\ Cardinality(SitesSeen(result.v)) >= 3

\* whole is a zero: the number 0 as an int, a float or a bool
IsZero(x) == IsNumber(x) /\ Milli(x) = 0

\* The tenths of a percent in a returned float
Tenths(x) == x.v \div 100

\* C11: pct returns 0.0 whenever whole is zero, whatever part is, and does
\* not raise; for numbers with whole not zero it returns a float with one
\* decimal that is within 0.05 of 100 * part / whole; pct(0, 0) = 0.0,
\* pct(5, 10) = 50.0 and pct(1, 3) = 33.3.
C11_Pct ==
    pctOut # NotCalled =>
        /\ IsZero(pctWhole) => pctOut = [exc |-> "", val |-> PyFloat(0)]
        /\ (IsNumber(pctPart) /\ IsNumber(pctWhole) /\ ~IsZero(pctWhole)) =>
                /\ pctOut.exc = ""
                /\ pctOut.val.k = "float"
                /\ pctOut.val.v % 100 = 0
                /\ 2 * Abs(Tenths(pctOut.val) * Milli(pctWhole) - 1000 * Milli(pctPart))
                        <= Abs(Milli(pctWhole))
        /\ (pctPart = PyInt(0) /\ pctWhole = PyInt(0)) => pctOut.val = PyFloat(0)
        /\ (pctPart = PyInt(5) /\ pctWhole = PyInt(10)) => pctOut.val = PyFloat(50000)
        /\ (pctPart = PyInt(1) /\ pctWhole = PyInt(3)) => pctOut.val = PyFloat(33300)

\* pct has returned 0.0 for a part that is not zero over the float 0.0.
C11_Witness ==
    /\ pctOut = [exc |-> "", val |-> PyFloat(0)]
    /\ pctPart = PyInt(5)
    /\ pctWhole = PyFloat(0)

\* The share of always-degraded vehicles of a totals payload, in
\* thousandths of a percent (0 when uniqueVehicles is zero)
AlwaysPct(r) ==
    pct(Get(r, "alwaysDegraded", PyInt(0)), Get(r, "uniqueVehicles", PyInt(0))).val.v

\* A mapping classified city_totals
CityShape(r) == TotalsShape(r) /\ ~Has(r, "site")

CityLabels == {"excellent", "good", "borderline", "concerning"}

CityLabelLine(label) ==
    "- City health on this day is **" \o label
    \o "** based on the share of always-degraded vehicles."

\* The city-health label the thresholds give to a share (in thousandths)
ExpectedCityLabel(always_pct) ==
    CASE always_pct < 2000 -> "excellent"
      [] 2000 <= always_pct /\ always_pct < 5000 -> "good"
      [] 5000 <= always_pct /\ always_pct < 10000 -> "borderline"
      [] always_pct >= 10000 -> "concerning"

\* C12: the narrative of a city_totals payload carries one city-health
\* label, the one of always_pct = pct(alwaysDegraded, uniqueVehicles):
\* excellent below 2, good from 2 to below 5, borderline from 5 to below
\* 10, concerning from 10; with uniqueVehicles zero, or absent when the
\* formatter is applied to the payload without it, the label is excellent.
C12_CityLabel ==
    CityShape(result) =>
        /\ \A i \in FirstOutputs :
                outs[i].exc = "" =>
                    \A label \in CityLabels :
                        Contains(outs[i].s, CityLabelLine(label))
                            <=> label = ExpectedCityLabel(AlwaysPct(result))
        /\ \A i \in FirstOutputs :
                (outs[i].exc = "" /\ ~Truthy(result.v["uniqueVehicles"])) =>
                    Contains(outs[i].s, CityLabelLine("excellent"))
        /\ LET absent == Restrict(result.v, Keys(result) \ {"uniqueVehicles"})
               out == analyze_city_totals(question, absent)
           IN  out.exc = "" => Contains(out.s, CityLabelLine("excellent"))

\* A city payload with exactly 2.0 percent always degraded has been
\* rendered with the label good.
C12_Witness ==
    /\ CityShape(result)
    /\ result.v["uniqueVehicles"] = PyInt(1000)
    /\ Get(result, "alwaysDegraded", PyNone) = PyInt(20)
    /\ Len(outs) > 0
    /\ outs[1].exc = ""
    /\ Contains(outs[1].s, CityLabelLine("good"))

\* A mapping classified site_totals
SiteShape(r) == TotalsShape(r) /\ Has(r, "site")

SiteLabels == {"very healthy", "healthy", "borderline", "suspicious"}

SiteLabelLine(label) ==
    "- This site on that day looks **" \o label
    \o "** from a vehicle degradation perspective."

\* The site label the thresholds give to a share (in thousandths)
ExpectedSiteLabel(always_pct) ==
    CASE always_pct < 2000 -> "very healthy"
      [] 2000 <= always_pct /\ always_pct < 5000 -> "healthy"
      [] 5000 <= always_pct /\ always_pct < 10000 -> "borderline"
      [] always_pct >= 10000 -> "suspicious"

SystemicWarning ==
    <<"- A high share of always-degraded vehicles suggests something systematic at this site: alignment, illumination, or configuration.",
      "- Cross-check this with trip patterns: do many of these vehicles look fine at other sites the same day?">>

NormalTraffic ==
    <<"- Most vehicles either look fine or only occasionally degraded here, which is consistent with normal traffic and environment.">>

\* C13: the narrative of a site_totals payload carries one site label, the
\* one of always_pct = pct(alwaysDegraded, uniqueVehicles): very healthy
\* below 2, healthy below 5, borderline below 10, suspicious otherwise;
\* what follows the label line is the two systemic-issue warning lines when
\* always_pct >= 5 and the normal-traffic line otherwise, and nothing else.
C13_SiteLabel ==
    SiteShape(result) =>
        \A i \in FirstOutputs :
            outs[i].exc = "" =>
                /\ \A label \in SiteLabels :
                        Contains(outs[i].s, SiteLabelLine(label))
                            <=> label = ExpectedSiteLabel(AlwaysPct(result))
                /\ LET lines == SplitLines(outs[i].s)
                   IN  /\ lines[8] = SiteLabelLine(ExpectedSiteLabel(AlwaysPct(result)))
                       /\ SubSeq(lines, 9, Len(lines)) =
                                IF AlwaysPct(result) >= 5000 THEN SystemicWarning
                                ELSE NormalTraffic

\* A site payload with exactly 5.0 percent always degraded has been
\* rendered borderline with the systemic-issue warning.
C13_Witness ==
    /\ SiteShape(result)
    /\ result.v["uniqueVehicles"] = PyInt(1000)
    /\ Get(result, "alwaysDegraded", PyNone) = PyInt(50)
    /\ Len(outs) > 0
    /\ outs[1].exc = ""
    /\ Contains(outs[1].s, SiteLabelLine("borderline"))
    /\ Contains(outs[1].s, SystemicWarning[1])

\* The good rate of a site_day_status payload as the formatter is to take
\* it: the field when it holds a value, else the rate of the counts, and
\* no rate (None) when there is neither a value nor a detection
RateOf(r) ==
    IF Get(r, "goodRatePct", PyNone) # PyNone THEN r.v["goodRatePct"]
    ELSE IF Truthy(r.v["detectionsTotal"])
        THEN pct(r.v["detectionsGood"], r.v["detectionsTotal"]).val
    ELSE PyNone

\* The same with the rate 0 when there is no detection
RateOrZero(r) == IF RateOf(r) = PyNone THEN PyFloat(0) ELSE RateOf(r)

\* The label the bands give to a good rate
LabelOfRate(rate) ==
    CASE rate = PyNone -> "no data"
      [] rate # PyNone /\ Milli(rate) >= 90000 -> "healthy"
      [] rate # PyNone /\ 80000 <= Milli(rate) /\ Milli(rate) < 90000 -> "slightly degraded"
      [] rate # PyNone /\ 60000 <= Milli(rate) /\ Milli(rate) < 80000 -> "borderline"
      [] rate # PyNone /\ Milli(rate) < 60000 -> "heavily degraded"

\* The interpretive paragraph the bands give to a good rate: the lines
\* that end the report
ParagraphOfRate(rate) ==
    CASE rate = PyNone -> <<>>
      [] rate # PyNone /\ Milli(rate) >= 90000 -> <<StrongDayLine>>
      [] rate # PyNone /\ 80000 <= Milli(rate) /\ Milli(rate) < 90000 -> <<SlightDegradationLine>>
      [] rate # PyNone /\ 60000 <= Milli(rate) /\ Milli(rate) < 80000 -> <<BorderlineLine>>
      [] rate # PyNone /\ Milli(rate) < 60000 -> <<HeavyDegradationLine>>

GoodRateLine(rate) == "- Good rate: **" \o Format1f(rate).s \o "%**"

QualitativeLine(label) ==
    "- Overall this site is **" \o label
    \o "** on that day based on the good-rate percentage."

\* The status field is absent, null or empty: the label is derived
StatusMissing(r) == ~Truthy(Get(r, "status", PyNone))

\* C14 as stated: the figure, the derived label and the paragraph follow
\* goodRatePct when present and else the rate of the counts, which is 0
\* when detectionsTotal is zero.
C14_Original ==
    StatusShape(result) =>
        \A i \in FirstOutputs :
            outs[i].exc = "" =>
                LET lines == SplitLines(outs[i].s)
                IN  /\ lines[6] = GoodRateLine(RateOrZero(result))
                    /\ StatusMissing(result) =>
                            lines[10] = QualitativeLine(LabelOfRate(RateOrZero(result)))
                    /\ SubSeq(lines, 11, Len(lines)) = ParagraphOfRate(RateOrZero(result))

\* C14, amended: the rate is goodRatePct when the field holds a value, and
\* else the rate of the counts rounded to one decimal; with neither a value
\* nor any detection the rate is undefined: the figure shown is 0.0, the
\* derived label is no data and no paragraph follows.
C14_GoodRate ==
    StatusShape(result) =>
        \A i \in FirstOutputs :
            outs[i].exc = "" =>
                LET lines == SplitLines(outs[i].s)
                IN  /\ lines[6] = GoodRateLine(RateOrZero(result))
                    /\ StatusMissing(result) =>
                            lines[10] = QualitativeLine(LabelOfRate(RateOf(result)))
                    /\ SubSeq(lines, 11, Len(lines)) = ParagraphOfRate(RateOf(result))

\* A payload whose goodRatePct differs from the rate of its counts, and
\* one without the field, have been rendered.
C14_Witness ==
    /\ StatusShape(result)
    /\ Len(outs) > 0
    /\ outs[1].exc = ""
    /\ Get(result, "goodRatePct", PyNone) = PyFloat(89950)
    /\ result.v["detectionsGood"] = PyInt(500)
    /\ result.v["detectionsTotal"] = PyInt(1000)
    /\ StatusMissing(result)
    /\ SplitLines(outs[1].s)[10] = QualitativeLine("slightly degraded")

\* The status field holds a non-empty string
StatusGiven(r) ==
    /\ Has(r, "status")
    /\ r.v["status"].k = "str"
    /\ r.v["status"].v # ""

\* C15: when status is a non-empty string, whichever it is, the label of
\* the narrative is that string verbatim; when status is absent or empty
\* the label is derived from the good rate: healthy (>= 90), slightly
\* degraded (>= 80), borderline (>= 60), heavily degraded (otherwise), or
\* no data when the good rate is undefined.
C15_StatusVerbatim ==
    StatusShape(result) =>
        \A i \in FirstOutputs :
            outs[i].exc = "" =>
                /\ StatusGiven(result) =>
                        SplitLines(outs[i].s)[10]
                            = QualitativeLine(result.v["status"].v)
                /\ StatusMissing(result) =>
                        SplitLines(outs[i].s)[10]
                            = QualitativeLine(LabelOfRate(RateOf(result)))

FourParagraphs ==
    {StrongDayLine, SlightDegradationLine, BorderlineLine, HeavyDegradationLine}

\* The payload with its status and color replaced
Restated(r, st, color) == With(With(r.v, "status", st).v, "color", color)

\* The payload without status and color
Unstated(r) == Restrict(r.v, Keys(r) \ {"status", "color"})

\* Whether one text begins with another
StartsWith(s, prefix) ==
    /\ Len(s) >= Len(prefix)
    /\ SubSeq(s, 1, Len(prefix)) = prefix

EndsWith(s, suffix) ==
    /\ Len(s) >= Len(suffix)
    /\ SubSeq(s, Len(s) - Len(suffix) + 1, Len(s)) = suffix

\* The interpretive paragraphs a report ends with
FinalParagraphs(s) == {p \in FourParagraphs : EndsWith(s, "\n" \o p)}

\* The final paragraphs of the reports of the payload without status and
\* color, and with each other status and another color
ParagraphsWhateverStatus(q, r) ==
    {FinalParagraphs(analyze_site_day_status(q, Unstated(r)).s)}
    \cup {FinalParagraphs(analyze_site_day_status(q, Restated(r, st, PyStr("red"))).s) :
            st \in StatusValues}

\* C16 as stated: every site_day_status narrative ends with exactly one of
\* the four interpretive paragraphs, the one of the band of the good rate,
\* the same whatever the status and color.
C16_Original ==
    StatusShape(result) =>
        LET others == ParagraphsWhateverStatus(question, result)
        IN  \A i \in FirstOutputs :
                outs[i].exc = "" =>
                    LET last == LinesAfter(outs[i].s, 10)
                    IN  /\ Len(last) = 1
                        /\ last[1] \in FourParagraphs
                        /\ RateOf(result) # PyNone =>
                                last = ParagraphOfRate(RateOf(result))
                        /\ others = {FinalParagraphs(outs[i].s)}

\* C16, amended: a site_day_status narrative whose good rate is defined
\* (goodRatePct holds a value, or detectionsTotal is not zero) ends with
\* exactly one of the four interpretive paragraphs, the one of the band of
\* the rate (>= 90, 80-90, 60-80, < 60); with no defined rate it has no
\* interpretive paragraph; either way what follows the label line is the
\* same whatever the status and color.
C16_RateParagraph ==
    StatusShape(result) =>
        LET others == ParagraphsWhateverStatus(question, result)
        IN  \A i \in FirstOutputs :
                outs[i].exc = "" =>
                    LET last == LinesAfter(outs[i].s, 10)
                    IN  /\ RateOf(result) # PyNone =>
                                /\ Len(last) = 1
                                /\ last[1] \in FourParagraphs
                                /\ last = ParagraphOfRate(RateOf(result))
                        /\ RateOf(result) = PyNone => last = <<>>
                        /\ others = {FinalParagraphs(outs[i].s)}

\* A payload with the rate 95.0 and a status that is not healthy has been
\* rendered with the strong, clean-day paragraph.
C16_Witness ==
    /\ StatusShape(result)
    /\ Len(outs) > 0
    /\ outs[1].exc = ""
    /\ Get(result, "goodRatePct", PyNone) = PyFloat(95000)
    /\ Get(result, "status", PyNone) = PyStr("degraded")
    /\ LinesAfter(outs[1].s, 10) = <<StrongDayLine>>

ClassificationLine(desc) == "- Classification: **" \o desc \o "**"

\* The report has the classification desc and, after the heading
\* Interpretation, the paragraph para and the closing suggestion, and no
\* other line
VehicleReportEnds(s, desc, para) ==
    LET lines == SplitLines(s)
    IN  /\ Len(lines) = 12
        /\ lines[8] = ClassificationLine(desc)
        /\ lines[10] = "**Interpretation**"
        /\ lines[11] = para
        /\ lines[12] = VehicleClosingLine

\* C17: a vehicle_degrade narrative has exactly one interpretive
\* paragraph: the vehicle-side-issue one, with the classification always
\* degraded, when alwaysDegraded is true; the site-diagnostics one, with
\* not always degraded, when alwaysDegraded is false or absent.
C17_VehicleParagraph ==
    VehicleShape(result) =>
        \A i \in FirstOutputs :
            outs[i].exc = "" =>
                /\ Contains(outs[i].s, VehicleSideLine)
                        # Contains(outs[i].s, SiteDiagnosticsLine)
                /\ Get(result, "alwaysDegraded", PyNone) = PyBool(TRUE) =>
                        VehicleReportEnds(outs[i].s, "always degraded", VehicleSideLine)
                /\ Get(result, "alwaysDegraded", PyBool(FALSE)) = PyBool(FALSE) =>
                        VehicleReportEnds(outs[i].s, "not always degraded",
                                          SiteDiagnosticsLine)

\* A vehicle payload with alwaysDegraded false has been rendered with the
\* site-diagnostics paragraph.
C17_Witness ==
    /\ VehicleShape(result)
    /\ Get(result, "alwaysDegraded", PyNone) = PyBool(FALSE)
    /\ Len(outs) > 0
    /\ outs[1].exc = ""
    /\ Contains(outs[1].s, SiteDiagnosticsLine)

\* C18: the empty sequence is classified trips and rendered as the fixed
\* no-trips message, not as the unknown fallback; no other payload, and so
\* no non-empty trips payload, is rendered as the no-trips message.
C18_EmptyTrips ==
    /\ result = PyList(<<>>) =>
            /\ Classified => rtype = "trips"
            /\ \A i \in FirstOutputs :
                    /\ outs[i] = Ok(NoTripsMessage)
                    /\ ~Contains(outs[i].s, "I don't recognize its structure")
    /\ result # PyList(<<>>) =>
            \A i \in FirstOutputs :
                /\ outs[i].s # NoTripsMessage
                /\ IsList(result) =>
                        ~Contains(outs[i].s, "There are no trips matching that query.")

\* The empty sequence has been classified trips and rendered as the
\* no-trips message.
C18_Witness ==
    /\ result = PyList(<<>>)
    /\ rtype = "trips"
    /\ Len(outs) > 0
    /\ outs[1].exc = ""
    /\ Contains(outs[1].s, "There are no trips matching that query.")

\* The values of a quality field over the trips, a missing one counted as
\* 0.0, in thousandths
QualityValues(trips, field) ==
    {Milli(Get(trips[n], field, PyFloat(0))) : n \in 1..Len(trips)}

Least(S) == CHOOSE m \in S : \A x \in S : m <= x

Greatest(S) == CHOOSE m \in S : \A x \in S : m >= x

\* The quality summary the thresholds give to an overall minimum
SummaryOfMin(m) ==
    CASE m >= 700 -> "consistently good quality across trips"
      [] 500 <= m /\ m < 700 -> "mostly acceptable, with some weaker segments"
      [] 300 <= m /\ m < 500 -> "mixed and often weak quality"
      [] m < 300 -> "frequently very poor quality"

\* C19: in the narrative of a non-empty trips payload the overall minimum
\* is the least minQuality of the trips and the overall maximum the
\* greatest maxQuality, a missing value counted as 0.0, and the quality
\* summary is the one of the overall minimum: consistently good (>= 0.7),
\* mostly acceptable (>= 0.5), mixed and often weak (>= 0.3), frequently
\* very poor (otherwise).
C19_OverallQuality ==
    TripsShape(result) =>
        \A i \in FirstOutputs :
            outs[i].exc = "" =>
                LET lo == Least(QualityValues(result.v, "minQuality"))
                    hi == Greatest(QualityValues(result.v, "maxQuality"))
                    lines == SplitLines(outs[i].s)
                IN  /\ lines[5] = "- Overall min quality across trips: **"
                                  \o Format3f(PyFloat(lo)).s \o "**"
                    /\ lines[6] = "- Overall max quality across trips: **"
                                  \o Format3f(PyFloat(hi)).s \o "**"
                    /\ lines[7] = "- Quality summary: **" \o SummaryOfMin(lo) \o "**"

\* Two trips, the second without minQuality, have been rendered with the
\* overall minimum 0.000 and the overall maximum of the first.
C19_Witness ==
    /\ TripsShape(result)
    /\ Len(outs) > 0
    /\ outs[1].exc = ""
    /\ Len(result.v) = 2
    /\ Get(result.v[1], "minQuality", PyNone) = PyFloat(700)
    /\ Get(result.v[1], "maxQuality", PyNone) = PyFloat(700)
    /\ ~Has(result.v[2], "minQuality")
    /\ Contains(outs[1].s, "- Overall min quality across trips: **0.000**")
    /\ Contains(outs[1].s, "- Quality summary: **frequently very poor quality**")

\* The non-empty issueLabel strings of the trips
CollectedLabels(trips) ==
    {trips[n].v["issueLabel"].v :
        n \in {m \in 1..Len(trips) :
                    /\ Has(trips[m], "issueLabel")
                    /\ trips[m].v["issueLabel"].k = "str"
                    /\ trips[m].v["issueLabel"].v # ""}}

\* Every issueLabel is a string, null or absent
LabelsAreStrings(trips) ==
    \A n \in 1..Len(trips) :
        Get(trips[n], "issueLabel", PyNone).k \in {"str", "null"}

\* The substring each interpretive sentence is gated by, in the order of
\* the sentences
IssueSentences ==
    <<<<"car_issue", CarIssueLine>>, <<"site", SiteIssueLine>>,
      <<"mixed", MixedQualityLine>>>>

\* The sentences whose substring some label contains
Triggered(labels) ==
    LET hit == SelectSeq(IssueSentences,
                         LAMBDA gate : \E label \in labels : Contains(label, gate[1]))
    IN  [n \in 1..Len(hit) |-> hit[n][2]]

\* C20: in the narrative of a non-empty trips payload each of the three
\* interpretive sentences is present if and only if some non-empty
\* issueLabel contains its substring (car_issue, site, mixed), literally
\* and independently of the other two; after the trip lines come the
\* heading and the triggered sentences, and nothing at all when no trip
\* has a non-empty label.
C20_IssueSentences ==
    TripsShape(result) =>
        \A i \in FirstOutputs :
            (outs[i].exc = "" /\ LabelsAreStrings(result.v)) =>
                LET labels == CollectedLabels(result.v)
                    last == LinesAfter(outs[i].s, 9 + Len(result.v))
                IN  /\ Len(Triggered(labels)) <= 3
                    /\ labels = {} => last = <<>>
                    /\ labels # {} =>
                            last = <<"", "**Issue label interpretation**">>
                                   \o Triggered(labels)

\* A trip labelled onsite has been rendered with the site sentence alone.
C20_Witness ==
    /\ TripsShape(result)
    /\ Len(outs) > 0
    /\ outs[1].exc = ""
    /\ CollectedLabels(result.v) = {"onsite"}
    /\ Contains(outs[1].s, SiteIssueLine)
    /\ ~Contains(outs[1].s, CarIssueLine)
    /\ ~Contains(outs[1].s, MixedQualityLine)

\* A line of the trip-by-trip view
IsTripLine(text) == Len(text) >= 7 /\ SubSeq(text, 1, 7) = "- Trip "

\* The text of a field that is a string, and otherwise of its default
TextOr(trip, key, default) ==
    IF Has(trip, key) /\ trip.v[key].k = "str" /\ trip.v[key].v # ""
        THEN trip.v[key].v
    ELSE default

\* The field is a string, null or absent
Textual(trip, key) == Get(trip, key, PyNone).k \in {"str", "null"}

\* text is the line numbered n of the trip: its number, then its day and
\* window, its route (unknown route by default) and last its issue label
\* (none by default), each field as far as it is a string
DescribesTrip(text, n, trip) ==
    LET number == "- Trip " \o ToString(n) \o ": day "
        start == number \o Get(trip, "day", PyStr("?")).v \o ", window "
                 \o Get(trip, "window30", PyStr("")).v \o " (hour "
    IN  /\ StartsWith(text, number)
        /\ (Get(trip, "day", PyStr("?")).k = "str"
            /\ Get(trip, "window30", PyStr("")).k = "str") =>
                StartsWith(text, start)
        /\ Textual(trip, "routeSig") =>
                Contains(text, "), route **" \o TextOr(trip, "routeSig", "unknown route")
                               \o "**, minQ=")
        /\ Textual(trip, "issueLabel") =>
                EndsWith(text, ", issue=" \o TextOr(trip, "issueLabel", "none"))

\* C21: the narrative of a non-empty trips payload of n trips has exactly n
\* trip lines, the lines 10 to 9 + n of the report; the i-th is numbered
\* Trip i, counting from 1, and describes the i-th trip of the payload, its
\* route shown as unknown route and its issue label as none when the trip
\* has none.
C21_TripLines ==
    TripsShape(result) =>
        \A i \in FirstOutputs :
            outs[i].exc = "" =>
                LET lines == SplitLines(outs[i].s)
                    n == Len(result.v)
                IN  /\ {j \in 1..Len(lines) : IsTripLine(lines[j])} = 10..(9 + n)
                    /\ \A k \in 1..n : DescribesTrip(lines[9 + k], k, result.v[k])

\* Two trips have been rendered, the second one with an empty route and no
\* issue label: its line is numbered 2 and shows the two defaults, and the
\* line of the first trip shows its own window and route.
C21_Witness ==
    /\ result = PyList(<<PyDict(TripA), Restrict(TripB, DOMAIN TripB \ {"issueLabel"})>>)
    /\ Len(outs) > 0
    /\ outs[1].exc = ""
    /\ Contains(outs[1].s, "\n- Trip 1: day 2025-08-16, window 08:30 (hour 8), route **RUHSM173>RUHSM002**")
    /\ Contains(outs[1].s, "\n- Trip 2: day 2025-08-16, window 17:00 (hour 17), route **unknown route**")
    /\ Contains(outs[1].s, "sites=RUHSM010,RUHSM002, issue=none\n")

\* Every siteList is a list of strings, null or absent
SitesAreLists(trips) ==
    \A n \in 1..Len(trips) :
        LET sites == Get(trips[n], "siteList", PyNone)
        IN  \/ sites = PyNone
            \/ /\ sites.k = "list"
               /\ \A j \in 1..Len(sites.v) : sites.v[j].k = "str"

\* The site names of one trip
TripSites(trip) ==
    LET sites == Get(trip, "siteList", PyNone)
    IN  IF sites = PyNone THEN {} ELSE {sites.v[j].v : j \in 1..Len(sites.v)}

\* The union of the siteList entries of the trips
AllSites(trips) == UNION {TripSites(trips[n]) : n \in 1..Len(trips)}

\* The names of a set in increasing order
Increasing(names) ==
    CHOOSE seq \in Perms(names) :
        \A i, j \in 1..Len(seq) : i < j => StrLess(seq[i], seq[j])

\* The summary line of the sites
SitesLine(names) ==
    "- Distinct sites visited: **" \o ToString(Cardinality(names)) \o "** ("
    \o JoinWith(", ", Increasing(names)) \o ")"

\* A trip with the entries of its siteList in the opposite order
ReverseSites(trip) ==
    IF Has(trip, "siteList") /\ trip.v["siteList"].k = "list"
        THEN LET sites == trip.v["siteList"].v
             IN  With(trip.v, "siteList",
                      PyList([j \in 1..Len(sites) |-> sites[Len(sites) + 1 - j]]))
    ELSE trip

\* The trips payloads made of the same trips in another order, and the
\* payload with the entries of every siteList in the opposite order
Rearranged(r) ==
    LET shuffled == {PyList([k \in 1..Len(r.v) |-> r.v[p[k]]]) :
                        p \in Perms(1..Len(r.v))}
        reversed == {PyList([k \in 1..Len(r.v) |-> ReverseSites(r.v[k])])}
    IN  {s \in shuffled \cup reversed : TripsShape(s)}

\* C22: in the narrative of a non-empty trips payload the count of distinct
\* sites is the number of elements of the union of the siteList entries of
\* all trips, and the sites listed are that union in increasing order;
\* the same trips in another order, or with the entries of their
\* siteLists in another order, give the same line.
C22_DistinctSites ==
    TripsShape(result) =>
        \A i \in FirstOutputs :
            (outs[i].exc = "" /\ SitesAreLists(result.v)) =>
                LET line == SplitLines(outs[i].s)[4]
                IN  /\ line = SitesLine(AllSites(result.v))
                    /\ AllSites(result.v) # {} =>
                        \A other \in Rearranged(result) \ {result} :
                            \A iter \in IterOrders(other) :
                                LET out == analyze_result(question, other, iter)
                                IN  out.exc = "" /\ SplitLines(out.s)[4] = line

\* Two trips that share one of their two sites each have been rendered:
\* three distinct sites, listed in increasing order.
C22_Witness ==
    /\ result = PyList(<<PyDict(TripA), PyDict(TripB)>>)
    /\ Len(outs) > 0
    /\ outs[1].exc = ""
    /\ Contains(outs[1].s,
                "\n- Distinct sites visited: **3** (RUHSM002, RUHSM010, RUHSM173)\n")

\* The fixed beginning of the fallback message
FallbackStart == "I received data from the backend, but I don't recognize its structure."

\* The fallback message for a question and the dump of a payload
FallbackText(q, dump) ==
    FallbackStart \o "\n\nQuestion was:\n  \"" \o q \o "\"\n\nRaw result:\n" \o dump

\* The outcomes of the formatter of a category on the payload
FormatterOutcomes(category, q, r) ==
    CASE category = "error" -> {analyze_error(q, r)}
      [] category = "city_totals" -> {analyze_city_totals(q, r)}
      [] category = "site_totals" -> {analyze_site_totals(q, r)}
      [] category = "site_day_status" -> {analyze_site_day_status(q, r)}
      [] category = "vehicle_degrade" -> {analyze_vehicle_degrade(q, r)}
      [] category = "trips" -> {analyze_trips(q, r, iter) : iter \in IterOrders(r)}
      [] OTHER -> {}

\* C23: analyze_result returns the fallback message, which holds the
\* question as asked and a dump of the payload, exactly for the payloads
\* that detect_result_type classifies unknown; every other payload gets the
\* outcome of the formatter of its category and never the fallback message.
C23_Fallback ==
    \A i \in FirstOutputs :
        LET category == detect_result_type(result)
        IN  /\ category = "unknown" =>
                    /\ outs[i].exc = ""
                    /\ outs[i].s = FallbackText(question, Format(result).s)
            /\ category # "unknown" =>
                    /\ outs[i] \in FormatterOutcomes(category, question, result)
                    /\ ~StartsWith(outs[i].s, FallbackStart)

\* The mapping {"foo": "bar"} has been analyzed under a question: the
\* fallback message quotes the question and dumps the mapping.
C23_Witness ==
    /\ result = PyDict([foo |-> PyStr("bar")])
    /\ question # ""
    /\ Len(outs) > 0
    /\ outs[1] = Ok(FallbackStart \o "\n\nQuestion was:\n  \"" \o question
                    \o "\"\n\nRaw result:\n{'foo': 'bar'}")

\* The error report for a question and an error message
ErrorText(q, msg) ==
    "I tried to answer your question:\n\n  \"" \o q
    \o "\"\n\nbut the backend returned an error:\n\n  " \o msg
    \o "\n\nThis usually means there is no data for that day/site/plate combination or the identifiers don't exist in the twin."

\* C24: the report of an error payload is the fixed template around the
\* question and the error message of the payload, and around the text
\* Unknown backend error. when the error message is the empty string.
C24_ErrorMessage ==
    (IsDict(result) /\ Has(result, "error") /\ result.v["error"].k = "str") =>
        \A i \in FirstOutputs :
            LET msg == result.v["error"].v
            IN  outs[i] = Ok(ErrorText(question,
                                       IF msg # "" THEN msg
                                       ELSE "Unknown backend error."))

\* ------------------------------------------------------------------
\* Concurrent invocations of analyze_result on one payload object
\* ------------------------------------------------------------------

\* The invocations that run at the same time
MaxCallers == 2

Callers == 1..MaxCallers

\* One frame for all invocations: the locals of analyze_trips as
\* module-level names
FrameShared(t) == 1

\* The frame that holds the locals of invocation t
Frame(t) == t

\* The locals of analyze_trips before their first assignment
NoLocals ==
    [plate |-> PyNone, sites_seen |-> {}, min_q_values |-> <<>>,
     max_q_values |-> <<>>, issues_flags |-> <<>>, lines |-> <<>>]

\* rets[t] before invocation t has returned or raised
NotReturned == [exc |-> "not returned", s |-> ""]

\* Lists of two well-formed trips and of an element that is no mapping,
\* and a mapping of each other category
SharedTrips == {PyDict(TripA), PyDict(TripB), PyInt(5)}

SharedPayloads ==
    {PyList(items) : items \in SeqsUpTo(SharedTrips, MaxTrips)}
    \cup {PyDict(CityFull), PyDict(SiteFull), PyDict(StatusFull), PyDict(VehicleFull),
          PyDict([foo |-> PyStr("bar")]),
          PyDict([error |-> PyStr("No data for day 2025-08-16")])}

InitCallers ==
    /\ asked = "How healthy is RUHSM173 on 2025-08-16?"
    /\ given \in SharedPayloads
    /\ heap = given
    /\ pcs = [t \in Callers |-> "call"]
    /\ idxs = [t \in Callers |-> 0]
    /\ locals = [f \in Callers |-> NoLocals]
    /\ rets = [t \in Callers |-> NotReturned]
    /\ alone = [t \in Callers |-> TRUE]
    /\ CallersRestIdle

\* Invocation t returns or raises
Return(t, out) ==
    /\ pcs' = [pcs EXCEPT ![t] = "done"]
    /\ rets' = [rets EXCEPT ![t] = out]
    /\ UNCHANGED idxs

\* Invocation t goes on to the statement at pc, with the loop index idx
Goto(t, pc, idx) ==
    /\ pcs' = [pcs EXCEPT ![t] = pc]
    /\ idxs' = [idxs EXCEPT ![t] = idx]
    /\ UNCHANGED rets

\* A step of invocation t happens while the other invocations under way
\* are between their call and their return; no statement assigns to the
\* payload or to the question
Step(t) ==
    /\ alone' = [u \in Callers |->
                    alone[u] /\ (u = t \/ pcs[u] \in {"call", "done"})]
    /\ UNCHANGED <<asked, given, heap>>
    /\ UNCHANGED callersRest

\* analyze_result up to the first statements of analyze_trips: the
\* formatters of mappings and the fallback are one expression over the
\* payload
Call(t) ==
    /\ pcs[t] = "call"
    /\ Step(t)
    /\ IF detect_result_type(heap) # "trips"
           THEN Return(t, analyze_result(asked, heap, <<>>)) /\ UNCHANGED locals
       ELSE IF Len(heap.v) = 0
           THEN Return(t, Ok(NoTripsMessage)) /\ UNCHANGED locals
       ELSE IF ~IsDict(heap.v[1])
           THEN Return(t, Raise("AttributeError")) /\ UNCHANGED locals
       ELSE /\ locals' = [locals EXCEPT ![Frame(t)] =
                    [NoLocals EXCEPT
                        !.plate = Get(heap.v[1], "plate", PyStr("unknown plate"))]]
            /\ Goto(t, "loop", 1)

\* One pass of the aggregation loop
Loop(t) ==
    /\ pcs[t] = "loop"
    /\ Step(t)
    /\ LET trip == heap.v[idxs[t]]
           label == Get(trip, "issueLabel", PyNone)
           sites == IterItems(SiteListOf(trip)).items
       IN  IF TripLoopExc(trip) # ""
               THEN Return(t, Raise(TripLoopExc(trip))) /\ UNCHANGED locals
           ELSE /\ locals' = [locals EXCEPT ![Frame(t)] =
                        [@ EXCEPT
                            !.sites_seen = @ \cup {sites[j] : j \in 1..Len(sites)},
                            !.min_q_values =
                                Append(@, Get(trip, "minQuality", PyFloat(0))),
                            !.max_q_values =
                                Append(@, Get(trip, "maxQuality", PyFloat(0))),
                            !.issues_flags =
                                IF Truthy(label) THEN Append(@, label) ELSE @]]
                /\ IF idxs[t] < Len(heap.v)
                       THEN Goto(t, "loop", idxs[t] + 1)
                   ELSE Goto(t, "summary", 0)

\* global_min_q, global_max_q, qual_summary and the first value of lines
Summary(t) ==
    /\ pcs[t] = "summary"
    /\ Step(t)
    /\ \E iter \in Perms(locals[Frame(t)].sites_seen) :
        LET l == locals[Frame(t)]
            global_min_q ==
                IF l.min_q_values = <<>> THEN [exc |-> "", val |-> PyFloat(0)]
                ELSE MinFrom(l.min_q_values[1], Tail(l.min_q_values))
            global_max_q ==
                IF l.max_q_values = <<>> THEN [exc |-> "", val |-> PyFloat(0)]
                ELSE MaxFrom(l.max_q_values[1], Tail(l.max_q_values))
            qual_summary == QualSummary(global_min_q.val)
            lines == SummaryLines(l.plate, Len(heap.v), l.sites_seen,
                                  global_min_q.val, global_max_q.val,
                                  qual_summary, iter)
        IN  IF global_min_q.exc # ""
                THEN Return(t, Raise(global_min_q.exc)) /\ UNCHANGED locals
            ELSE IF global_max_q.exc # ""
                THEN Return(t, Raise(global_max_q.exc)) /\ UNCHANGED locals
            ELSE IF qual_summary.exc # ""
                THEN Return(t, Raise(qual_summary.exc)) /\ UNCHANGED locals
            ELSE IF FirstExc(lines) # ""
                THEN Return(t, Raise(FirstExc(lines))) /\ UNCHANGED locals
            ELSE /\ locals' = [locals EXCEPT ![Frame(t)].lines = lines]
                 /\ Goto(t, "lines", 1)

\* One pass of the per-trip loop
Line(t) ==
    /\ pcs[t] = "lines"
    /\ Step(t)
    /\ LET line == IF IsDict(heap.v[idxs[t]]) THEN TripLine(idxs[t], heap.v[idxs[t]])
                   ELSE Raise("AttributeError")
       IN  IF line.exc # ""
               THEN Return(t, Raise(line.exc)) /\ UNCHANGED locals
           ELSE /\ locals' = [locals EXCEPT ![Frame(t)].lines = Append(@, line)]
                /\ IF idxs[t] < Len(heap.v)
                       THEN Goto(t, "lines", idxs[t] + 1)
                   ELSE Goto(t, "issues", 0)

\* The interpretation of the issue labels and the return of the joined lines
Issues(t) ==
    /\ pcs[t] = "issues"
    /\ Step(t)
    /\ LET issues == IssueInterpretation(locals[Frame(t)].issues_flags)
       IN  IF issues.exc # "" THEN Return(t, Raise(issues.exc))
           ELSE Return(t, JoinLines(locals[Frame(t)].lines \o issues.lines))
    /\ UNCHANGED locals

NextCallers ==
    \E t \in Callers : Call(t) \/ Loop(t) \/ Summary(t) \/ Line(t) \/ Issues(t)

SpecCallers == InitCallers /\ [][NextCallers]_vars

\* C25: invocations of analyze_result that run at the same time on one
\* payload leave the payload as it was given, and each of them returns
\* what analyze_result returns on that question and payload when it runs
\* alone, however their steps interleave.
C25_ReadOnly ==
    /\ heap = given
    /\ LET returned == {rets[t] : t \in {u \in DOMAIN pcs : pcs[u] = "done"}}
       IN  \A out \in returned :
                \E iter \in IterOrders(given) :
                    out = analyze_result(asked, given, iter)

\* An invocation on a list of two trips has returned its report after the
\* other invocation took steps between its call and its return, and the
\* other one is still in its loop.
C25_Witness ==
    /\ given = PyList(<<PyDict(TripA), PyDict(TripB)>>)
    /\ pcs[1] = "done"
    /\ ~alone[1]
    /\ pcs[2] \in {"loop", "summary", "lines"}
    /\ rets[1].exc = ""
    /\ Contains(rets[1].s, "\n- Trip 2: day 2025-08-16, window 17:00")

\* ------------------------------------------------------------------
\* extract_businesses (src/extract_riyadh_businesses.py): the grid search
\* with its progress file
\* ------------------------------------------------------------------

\* The grid points, the type groups, and the places of one response
MaxPoints == 2

MaxGroups == 2

MaxPlaces == 2

\* (i + 1) % 50 == 0: the period of the progress saves
SavePeriod == 50

\* The first grid points of the southern row, in ten-thousandths of a
\* degree: lat and lng rounded to four decimals
generate_grid_points ==
    [n \in 1..MaxPoints |-> [lat |-> 244500, lng |-> 464000 + 200 * (n - 1)]]

type_groups == 1..MaxGroups

\* A tuple and a list of the same items are different values
PyTuple(items) == [k |-> "tuple", v |-> items]

\* (point["lat"], point["lng"])
PointKey(point) == PyTuple(<<point.lat, point.lng>>)

\* tuple(p) and list(p)
AsTuple(p) == PyTuple(p.v)

AsList(p) == PyList(p.v)

\* A place of a response as parse_place reads it: its id and its name; a
\* place that is no mapping makes parse_place raise
Place(id, name) == [id |-> id, name |-> name]

BadPlace == Place("not a mapping", "")

Places ==
    {Place("p1", "Al Baik"), Place("p1", "Albaik Olaya"), Place("p2", "Tamimi"),
     Place("", "No id"), BadPlace}

\* What search_nearby_places may return: the places of the response, and
\* the empty list on any failure of the request
Responses == SeqsUpTo(Places, MaxPlaces)

NoBusinesses == [id \in {} |-> ""]

\* A progress file: it exists or not; completed_points is a list of
\* [lat, lng] lists, businesses a mapping from place_id to the business
NoProgressFile ==
    [exists |-> FALSE, completed_points |-> <<>>, businesses |-> NoBusinesses]

ProgressFile(points, found) ==
    [exists |-> TRUE, completed_points |-> points, businesses |-> found]

\* The lists of the tuples of a set, in the orders the set may be iterated
ListsOf(tuples) ==
    {[n \in 1..Len(order) |-> AsList(order[n])] : order \in Perms(tuples)}

\* The progress files a previous run may have left
SavedFiles ==
    {NoProgressFile}
    \cup {ProgressFile(points, found) :
            points \in UNION {ListsOf({PointKey(generate_grid_points[n]) : n \in done}) :
                                done \in SUBSET (1..MaxPoints)},
            found \in {NoBusinesses, [id \in {"p1"} |-> "Al Baik"]}}

\* load_progress
load_progress(file) ==
    IF file.exists THEN file ELSE ProgressFile(<<>>, NoBusinesses)

InitExtract ==
    /\ progressFile \in SavedFiles
    /\ extractPc = "load"
    /\ pointIdx = 0
    /\ groupIdx = 0
    /\ completed_points = {}
    /\ businesses = NoBusinesses
    /\ searches = <<>>
    /\ resumed = {}
    /\ ending = ""
    /\ ExtractRestIdle

\* progress = load_progress(); completed_points and businesses taken from it
LoadProgress ==
    /\ extractPc = "load"
    /\ LET progress == load_progress(progressFile)
           points == {AsTuple(progress.completed_points[n]) :
                        n \in 1..Len(progress.completed_points)}
       IN  /\ completed_points' = points
           /\ resumed' = points
           /\ businesses' = progress.businesses
    /\ extractPc' = "point"
    /\ UNCHANGED <<progressFile, pointIdx, groupIdx, searches, ending>>
    /\ UNCHANGED extractRest

\* for i, point in enumerate(grid_points): the end of the loop, a point
\* skipped, or the first type group of a point
NextPoint ==
    /\ extractPc = "point"
    /\ IF pointIdx >= Len(generate_grid_points)
           THEN extractPc' = "finally" /\ ending' = "completed" /\ UNCHANGED <<pointIdx, groupIdx>>
       ELSE IF PointKey(generate_grid_points[pointIdx + 1]) \in completed_points
           THEN pointIdx' = pointIdx + 1 /\ UNCHANGED <<extractPc, groupIdx, ending>>
       ELSE extractPc' = "search" /\ groupIdx' = 1 /\ UNCHANGED <<pointIdx, ending>>
    /\ UNCHANGED <<progressFile, completed_points, businesses, searches, resumed>>
    /\ UNCHANGED extractRest

\* place_id and place_id not in businesses, without the second test
ShouldStoreAgain(place_id, found) == place_id # ""

\* place_id and place_id not in businesses
ShouldStore(place_id, found) == place_id # "" /\ place_id \notin DOMAIN found

\* businesses after the places of one response, in their order
RECURSIVE StorePlaces(_, _)
StorePlaces(found, places) ==
    IF places = <<>> \/ Head(places) = BadPlace THEN found
    ELSE LET place == Head(places)
             stored == IF ShouldStore(place.id, found)
                           THEN [id \in DOMAIN found \cup {place.id} |->
                                    IF id = place.id THEN place.name ELSE found[id]]
                       ELSE found
         IN  StorePlaces(stored, Tail(places))

\* One type group searched at the point: the places of the response are
\* stored until one of them makes parse_place raise
Search ==
    /\ extractPc = "search"
    /\ \E places \in Responses :
        /\ businesses' = StorePlaces(businesses, places)
        /\ searches' = Append(searches, <<pointIdx + 1, groupIdx>>)
        /\ IF \E n \in 1..Len(places) : places[n] = BadPlace
               THEN extractPc' = "finally" /\ ending' = "Exception"
                    /\ UNCHANGED groupIdx
           ELSE IF groupIdx < MaxGroups
               THEN groupIdx' = groupIdx + 1 /\ UNCHANGED <<extractPc, ending>>
           ELSE extractPc' = "mark" /\ UNCHANGED <<groupIdx, ending>>
    /\ UNCHANGED <<progressFile, pointIdx, completed_points, resumed>>
    /\ UNCHANGED extractRest

\* completed_points.add(point_key), and the periodic save of the progress
MarkCompleted ==
    /\ extractPc = "mark"
    /\ LET points == completed_points \cup {PointKey(generate_grid_points[pointIdx + 1])}
       IN  /\ completed_points' = points
           /\ IF (pointIdx + 1) % SavePeriod = 0 \/ pointIdx = Len(generate_grid_points) - 1
                  THEN \E saved \in ListsOf(points) :
                            progressFile' = ProgressFile(saved, businesses)
              ELSE UNCHANGED progressFile
    /\ pointIdx' = pointIdx + 1
    /\ extractPc' = "point"
    /\ UNCHANGED <<groupIdx, businesses, searches, resumed, ending>>
    /\ UNCHANGED extractRest

\* Ctrl-C inside the try block
KeyboardInterrupt ==
    /\ extractPc \in {"point", "search", "mark"}
    /\ extractPc' = "finally"
    /\ ending' = "KeyboardInterrupt"
    /\ UNCHANGED <<progressFile, pointIdx, groupIdx, completed_points, businesses,
                   searches, resumed>>
    /\ UNCHANGED extractRest

\* finally: the progress is saved
Finally ==
    /\ extractPc = "finally"
    /\ \E saved \in ListsOf(completed_points) :
            progressFile' = ProgressFile(saved, businesses)
    /\ extractPc' = "done"
    /\ UNCHANGED <<pointIdx, groupIdx, completed_points, businesses, searches, resumed,
                   ending>>
    /\ UNCHANGED extractRest

NextExtract ==
    \/ LoadProgress
    \/ NextPoint
    \/ Search
    \/ MarkCompleted
    \/ KeyboardInterrupt
    \/ Finally

SpecExtract == InitExtract /\ [][NextExtract]_vars

\* The grid points searched so far in this run
SearchedPoints == {PointKey(generate_grid_points[searches[n][1]]) : n \in 1..Len(searches)}

\* No point completed before the run is searched, and no type group is
\* searched twice at a point
ResumesWhereItStopped ==
    /\ SearchedPoints \cap resumed = {}
    /\ \A m, n \in 1..Len(searches) : m # n => searches[m] # searches[n]

\* A point completed in this run has had every type group searched
CompletedAfterAllGroups ==
    \A n \in 1..Len(generate_grid_points) :
        PointKey(generate_grid_points[n]) \in completed_points \ resumed =>
            \A group \in type_groups :
                \E m \in 1..Len(searches) : searches[m] = <<n, group>>

\* At the end of the run, however it ended, the progress file holds the
\* completed points, each once, and the businesses
ProgressSaved ==
    extractPc = "done" =>
        /\ ending \in {"completed", "KeyboardInterrupt", "Exception"}
        /\ progressFile.exists
        /\ {AsTuple(progressFile.completed_points[n]) :
                n \in 1..Len(progressFile.completed_points)} = completed_points
        /\ Len(progressFile.completed_points) = Cardinality(completed_points)
        /\ progressFile.businesses = businesses

\* A business found stays as it was first stored
KeepsBusinesses ==
    \A id \in DOMAIN businesses :
        id \in DOMAIN businesses' /\ businesses'[id] = businesses[id]

\* C26: extract_businesses resumes and deduplicates: a grid point the
\* progress file lists as completed is not searched again; a point is put
\* in completed_points only after all its type groups were searched; a
\* place_id already in businesses keeps its entry; and when the run ends,
\* by completion, KeyboardInterrupt or another exception, the progress file
\* has been rewritten with the completed points and the businesses.
C26_ResumeAndDedup ==
    /\ [](ResumesWhereItStopped /\ CompletedAfterAllGroups /\ ProgressSaved)
    /\ [][KeepsBusinesses]_vars

\* A run resumed with the first point completed and one business known
\* has searched every type group of the second point, found a second
\* business, kept the first, and was interrupted: the file lists both
\* points and both businesses.
C26_Witness ==
    /\ extractPc = "done"
    /\ ending = "KeyboardInterrupt"
    /\ resumed = {PointKey(generate_grid_points[1])}
    /\ Cardinality(completed_points) = 2
    /\ Len(searches) = Cardinality(type_groups)
    /\ businesses = [id \in {"p1", "p2"} |-> IF id = "p1" THEN "Al Baik" ELSE "Tamimi"]
    /\ progressFile.businesses = businesses
    /\ Len(progressFile.completed_points) = 2

\* ------------------------------------------------------------------
\* run_agent (src/agent/agent.py): the prompt loop
\* ------------------------------------------------------------------

\* The iterations of the loop
MaxTurns == 2

\* str.lower() kept as the identity
LowerUnchanged(s) == s

\* str.lower() on ASCII text
Lower(s) ==
    LET upper == "ABCDEFGHIJKLMNOPQRSTUVWXYZ"
        lower == "abcdefghijklmnopqrstuvwxyz"
        LowerChar(c) ==
            IF \E n \in 1..26 : SubSeq(upper, n, n) = c
                THEN LET n == CHOOSE n \in 1..26 : SubSeq(upper, n, n) = c
                     IN  SubSeq(lower, n, n)
            ELSE c
    IN  ConcatAll([n \in 1..Len(s) |-> Ok(LowerChar(SubSeq(s, n, n)))])

\* What the user types at the prompt
AgentInputs ==
    {"How healthy is RUHSM173 on 2025-08-16?", "exit", "EXIT", "Quit", "exit ",
     "quite", ""}

\* The keys of TOOL_MAP
TOOL_MAP ==
    {"getCityTotals", "getSiteTotals", "getSiteDayStatus",
     "getVehicleDegradeStatus", "getTripsForDay", "getTripsAllDays"}

\* What chat_with_llm returns: text, or None after an error of the API
LlmOutputs ==
    {PyNone,
     PyStr("{\"tool\": \"getCityTotals\", \"params\": {\"day\": \"2025-08-16\"}}"),
     PyStr("{\"tool\": \"getTripsAllDays\", \"params\": {\"plate\": \"ABC123\"}}"),
     PyStr("{\"tool\": \"none\", \"params\": {}}"),
     PyStr("{\"tool\": \"getWeather\", \"params\": {}}"),
     PyStr("{\"tool\": \"GETCITYTOTALS\"}"),
     PyStr("{\"params\": {\"day\": \"2025-08-16\"}}"),
     PyStr("{\"tool\": [\"getCityTotals\"]}"),
     PyStr("[\"getCityTotals\"]"),
     PyStr("I cannot answer that with the tools I have."),
     PyStr("")}

\* json.loads on the texts of LlmOutputs: the outcome [exc, val]
json_loads(text) ==
    CASE text = "{\"tool\": \"getCityTotals\", \"params\": {\"day\": \"2025-08-16\"}}" ->
            [exc |-> "", val |-> PyDict([tool |-> PyStr("getCityTotals"),
                                         params |-> PyDict([day |-> PyStr("2025-08-16")])])]
      [] text = "{\"tool\": \"getTripsAllDays\", \"params\": {\"plate\": \"ABC123\"}}" ->
            [exc |-> "", val |-> PyDict([tool |-> PyStr("getTripsAllDays"),
                                         params |-> PyDict([plate |-> PyStr("ABC123")])])]
      [] text = "{\"tool\": \"none\", \"params\": {}}" ->
            [exc |-> "", val |-> PyDict([tool |-> PyStr("none"),
                                         params |-> PyDict(EmptyMap)])]
      [] text = "{\"tool\": \"getWeather\", \"params\": {}}" ->
            [exc |-> "", val |-> PyDict([tool |-> PyStr("getWeather"),
                                         params |-> PyDict(EmptyMap)])]
      [] text = "{\"tool\": \"GETCITYTOTALS\"}" ->
            [exc |-> "", val |-> PyDict([tool |-> PyStr("GETCITYTOTALS")])]
      [] text = "{\"params\": {\"day\": \"2025-08-16\"}}" ->
            [exc |-> "", val |-> PyDict([params |-> PyDict([day |-> PyStr("2025-08-16")])])]
      [] text = "{\"tool\": [\"getCityTotals\"]}" ->
            [exc |-> "", val |-> PyDict([tool |-> PyList(<<PyStr("getCityTotals")>>)])]
      [] text = "[\"getCityTotals\"]" ->
            [exc |-> "", val |-> PyList(<<PyStr("getCityTotals")>>)]
      [] text = "{\"day\": \"2025-08-16\"}" ->
            [exc |-> "", val |-> PyDict([day |-> PyStr("2025-08-16")])]
      [] OTHER -> [exc |-> "JSONDecodeError", val |-> PyNone]

\* What a backend tool caller returns, when it returns
BackendResults ==
    {PyDict(CityFull), PyDict([error |-> PyStr("No data for day 2025-08-16")]),
     PyList(<<>>), PyList(<<PyDict(TripA), PyDict(TripB)>>),
     PyList(<<PyDict(TripA), PyInt(5)>>)}

InitAgent ==
    /\ agentPc = "prompt"
    /\ agentQuestion = ""
    /\ llm_output = PyNone
    /\ tool = PyNone
    /\ params = PyNone
    /\ backendResult = PyNone
    /\ final = ""
    /\ events = <<>>
    /\ turns = 0
    /\ AgentRestIdle

\* continue, or the end of the loop body: back to the prompt
Continue ==
    /\ agentPc' = "prompt"
    /\ turns' = turns + 1

\* An exception no statement of the loop catches
Crash ==
    /\ agentPc' = "crashed"
    /\ UNCHANGED turns

\* question = input(...); the loop ends on exit or quit
Prompt ==
    /\ agentPc = "prompt"
    /\ turns < MaxTurns
    /\ \E typed \in AgentInputs :
        /\ agentQuestion' = typed
        /\ agentPc' = IF Lower(typed) \in {"exit", "quit"} THEN "stopped" ELSE "llm"
    /\ events' = <<>>
    /\ UNCHANGED <<llm_output, tool, params, backendResult, final, turns>>
    /\ UNCHANGED agentRest

\* llm_output = chat_with_llm(question), and the test for None
AskLlm ==
    /\ agentPc = "llm"
    /\ \E out \in LlmOutputs :
        /\ llm_output' = out
        /\ IF out = PyNone THEN Continue
           ELSE agentPc' = "parse" /\ UNCHANGED turns
    /\ events' = Append(events, <<"llm", agentQuestion>>)
    /\ UNCHANGED <<agentQuestion, tool, params, backendResult, final>>
    /\ UNCHANGED agentRest

\* tool_call = json.loads(llm_output); tool and params read from it
ParseToolCall ==
    /\ agentPc = "parse"
    /\ LET tool_call == json_loads(llm_output.v)
       IN  IF tool_call.exc # "" THEN Continue /\ UNCHANGED <<tool, params>>
           ELSE IF ~IsDict(tool_call.val) THEN Crash /\ UNCHANGED <<tool, params>>
           ELSE /\ tool' = Get(tool_call.val, "tool", PyNone)
                /\ params' = Get(tool_call.val, "params", PyDict(EmptyMap))
                /\ agentPc' = "route"
                /\ UNCHANGED turns
    /\ UNCHANGED <<agentQuestion, llm_output, backendResult, final, events>>
    /\ UNCHANGED agentRest

\* tool == "none", then tool not in TOOL_MAP
RouteTool ==
    /\ agentPc = "route"
    /\ IF tool = PyStr("none") THEN Continue
       ELSE IF ~Hashable(tool) THEN Crash
       ELSE IF ~(tool.k = "str" /\ tool.v \in TOOL_MAP) THEN Continue
       ELSE agentPc' = "backend" /\ UNCHANGED turns
    /\ UNCHANGED <<agentQuestion, llm_output, tool, params, backendResult, final,
                   events>>
    /\ UNCHANGED agentRest

\* result = TOOL_MAP[tool](params): the caller returns the decoded answer
\* of the backend, or raises
CallBackend ==
    /\ agentPc = "backend"
    /\ events' = Append(events, <<"backend", tool.v>>)
    /\ \/ \E answer \in BackendResults :
            /\ backendResult' = answer
            /\ agentPc' = "analyze"
            /\ UNCHANGED turns
       \/ Crash /\ UNCHANGED backendResult
    /\ UNCHANGED <<agentQuestion, llm_output, tool, params, final>>
    /\ UNCHANGED agentRest

\* final = analyze_result(question, result)
Analyze ==
    /\ agentPc = "analyze"
    /\ events' = Append(events, <<"analyze", agentQuestion>>)
    /\ \E iter \in IterOrders(backendResult) :
        LET out == analyze_result(agentQuestion, backendResult, iter)
        IN  IF out.exc # "" THEN Crash /\ UNCHANGED final
            ELSE final' = out.s /\ Continue
    /\ UNCHANGED <<agentQuestion, llm_output, tool, params, backendResult>>
    /\ UNCHANGED agentRest

NextAgent ==
    \/ Prompt
    \/ AskLlm
    \/ ParseToolCall
    \/ RouteTool
    \/ CallBackend
    \/ Analyze

SpecAgent == InitAgent /\ [][NextAgent]_vars

\* The tool the LLM output names, when the output is a JSON object
NamedTool(output) == Get(json_loads(output.v).val, "tool", PyNone)

\* The LLM output is None, is not valid JSON, names the tool "none", or
\* names no key of TOOL_MAP (a name is a string; an absent tool is None)
Declined(output) ==
    \/ output = PyNone
    \/ json_loads(output.v).exc # ""
    \/ /\ IsDict(json_loads(output.v).val)
       /\ \/ NamedTool(output) = PyStr("none")
          \/ NamedTool(output) = PyNone
          \/ NamedTool(output).k = "str" /\ NamedTool(output).v \notin TOOL_MAP

\* The positions of the calls of one kind in the iteration
CallsOf(kind) == {k \in 1..Len(events) : events[k][1] = kind}

\* C27: in one iteration analyze_result is called only after a backend
\* call for a key of TOOL_MAP; a None, non-JSON, "none" or unknown-tool
\* output leads to no backend call and no analysis and back to the
\* prompt; an iteration makes at most one LLM call and one backend call;
\* the loop ends exactly on exit or quit in any case of letters.
C27_AgentLoop ==
    /\ \A k \in CallsOf("analyze") :
            \E j \in CallsOf("backend") : j < k /\ events[j][2] \in TOOL_MAP
    /\ Declined(llm_output) =>
            /\ CallsOf("backend") = {} /\ CallsOf("analyze") = {}
            /\ agentPc \in {"llm", "parse", "route", "prompt", "stopped"}
    /\ Cardinality(CallsOf("llm")) <= 1
    /\ Cardinality(CallsOf("backend")) <= 1
    /\ agentPc = "stopped" <=> agentQuestion \in {"exit", "EXIT", "Quit"}

\* An iteration that analysed a backend answer, then one whose LLM output
\* named an unknown tool and went back to the prompt
C27_Witness ==
    /\ turns = 2
    /\ agentPc = "prompt"
    /\ final # ""
    /\ llm_output = PyStr("{\"tool\": \"getWeather\", \"params\": {}}")
    /\ events = <<<<"llm", "How healthy is RUHSM173 on 2025-08-16?">>>>

\* ------------------------------------------------------------------
\* add_conversation (src/agent/memory_manager.py)
\* ------------------------------------------------------------------

\* The calls of add_conversation on one memory
MaxExchanges == 3

\* The 15 of memory["conversation"][-15:]
KeepLast == 15

\* The first n elements, list[:n]
SliceFirst(list, n) == SubSeq(list, 1, IF Len(list) < n THEN Len(list) ELSE n)

\* The slice list[-n:] for n > 0: from index max(len - n, 0) to the end
SliceLast(list, n) ==
    LET start == IF Len(list) - n > 0 THEN Len(list) - n ELSE 0
    IN  SubSeq(list, start + 1, Len(list))

\* What the user and the agent said in exchange n of an earlier session
Earlier(n) ==
    LET letter == SubSeq("abcdefghijklmnopqrstuvwxyz", n, n)
    IN  [user |-> "question " \o letter, agent |-> "answer " \o letter]

\* The exchanges of this session
Exchanges ==
    {[user |-> "How healthy is RUHSM173?", agent |-> "Healthy."],
     [user |-> "And JED001?", agent |-> "Degraded."]}

\* The global patterns of this session
Patterns == {"night degradation", "lane 2 blur"}

\* DEFAULT_MEMORY
DEFAULT_MEMORY ==
    [conversation |-> <<>>, vehicles |-> EmptyMap, sites |-> EmptyMap,
     global_patterns |-> <<>>]

\* The memories a session starts from: DEFAULT_MEMORY, or the file of an
\* earlier session with a conversation of at most KeepLast entries
StoredMemories ==
    {DEFAULT_MEMORY}
        \cup {[DEFAULT_MEMORY EXCEPT !.conversation = [n \in 1..k |-> Earlier(n)],
                                     !.vehicles = [plate \in {"ABC123"} |-> "degrades at night"]]
                : k \in {KeepLast - 1, KeepLast}}

InitMemory ==
    /\ memory \in StoredMemories
    /\ arrived = memory.conversation
    /\ exchanges = 0
    /\ MemoryRestIdle

\* add_conversation(memory, user, agent)
add_conversation(mem, user, agent) ==
    LET appended == Append(mem.conversation, [user |-> user, agent |-> agent])
    IN  [mem EXCEPT !.conversation = SliceLast(appended, KeepLast)]

\* add_global_pattern(memory, pattern)
add_global_pattern(mem, pattern) ==
    IF \E n \in 1..Len(mem.global_patterns) : mem.global_patterns[n] = pattern
        THEN mem
    ELSE [mem EXCEPT !.global_patterns = Append(@, pattern)]

AddConversation ==
    /\ exchanges < MaxExchanges
    /\ exchanges' = exchanges + 1
    /\ \E said \in Exchanges :
        /\ memory' = add_conversation(memory, said.user, said.agent)
        /\ arrived' = Append(arrived, said)
    /\ UNCHANGED memoryRest

AddGlobalPattern ==
    /\ \E pattern \in Patterns :
        memory' = add_global_pattern(memory, pattern)
    /\ UNCHANGED <<arrived, exchanges>>
    /\ UNCHANGED memoryRest

NextMemory ==
    \/ AddConversation
    \/ AddGlobalPattern

SpecMemory == InitMemory /\ [][NextMemory]_vars

\* The keys of the memory other than the conversation
OtherKeys(mem) == [key \in DOMAIN mem \ {"conversation"} |-> mem[key]]

\* C28: after any sequence of add_conversation calls on a memory whose
\* conversation starts with at most 15 entries, the conversation has at
\* most 15 entries and is the most recent min(n, 15) exchanges in arrival
\* order; add_conversation changes no other key of the memory.
C28_LastFifteen ==
    /\ [](LET n == Len(arrived)
              kept == IF n < 15 THEN n ELSE 15
          IN  /\ Len(memory.conversation) <= 15
              /\ Len(memory.conversation) = kept
              /\ \A k \in 1..kept : memory.conversation[k] = arrived[n - kept + k])
    /\ [][exchanges' # exchanges => OtherKeys(memory') = OtherKeys(memory)]_vars

\* A conversation of 15 entries has received two more exchanges and lost
\* its two oldest ones, with a global pattern recorded in between
C28_Witness ==
    /\ exchanges = 2
    /\ Len(arrived) = 17
    /\ Len(memory.conversation) = 15
    /\ memory.conversation[1] = Earlier(3)
    /\ memory.conversation[15] \in Exchanges
    /\ memory.global_patterns # <<>>

\* ------------------------------------------------------------------
\* CameraHealthAgentLocal.analyze (src/backend/mcp_agent/agent_local.py)
\* ------------------------------------------------------------------

\* The largest max_iterations a call is given
MaxIterations == 2

\* A tool call of a response: {"function": {"name": .., "arguments": ..}}
ToolCall(name, arguments) ==
    PyDict([function |-> PyDict([name |-> PyStr(name), arguments |-> arguments])])

\* An assistant message without tool calls
Assistant(content) ==
    PyDict([role |-> PyStr("assistant"), content |-> PyStr(content)])

\* An assistant message that requests tools
Requesting(calls) ==
    PyDict([role |-> PyStr("assistant"), content |-> PyStr(""),
            tool_calls |-> PyList(calls)])

DayArgs == PyDict([day |-> PyStr("2025-08-16")])

\* What OllamaClient.chat returns: the decoded output of the model, or
\* the text output as the content of a message
ChatResponses ==
    {PyDict([message |-> Assistant("Camera RUHSM173 is healthy.")]),
     PyDict([message |-> Assistant("")]),
     PyDict(EmptyMap),
     PyDict([message |-> PyDict([role |-> PyStr("assistant"), content |-> PyStr("Done."),
                                 tool_calls |-> PyList(<<>>)])]),
     PyDict([message |-> Requesting(<<ToolCall("get_city_totals", DayArgs)>>)]),
     PyDict([message |-> Requesting(<<ToolCall("get_city_totals", PyStr("{\"day\": \"2025-08-16\"}")),
                                      ToolCall("get_site_totals", DayArgs)>>)]),
     PyDict([message |-> Requesting(<<ToolCall("get_city_totals", PyStr("{day: ")) >>)]),
     PyList(<<>>)}

\* OllamaClient.chat: a response, or the exception of a failed run
ChatOutcomes ==
    {[exc |-> "", val |-> response] : response \in ChatResponses}
        \cup {[exc |-> "Ollama error: model not found", val |-> PyNone]}

\* call_tool: the text of the tool's answer, or the exception it raises
ToolOutcomes ==
    {[exc |-> "", val |-> PyStr("{\"detectionsTotal\": 100}")],
     [exc |-> "Connection closed", val |-> PyNone]}

\* str(response) for the responses of ChatResponses without a content
str_response(response) ==
    CASE response = PyDict(EmptyMap) -> "{}"
      [] response = PyDict([message |-> Assistant("")]) ->
            "{'message': {'role': 'assistant', 'content': ''}}"
      [] OTHER -> "{...}"

\* json.dumps({"error": str(e)}) for a message without escaped characters
ErrorObject(e) == "{\"error\": \"" \o e \o "\"}"

\* The system and user messages analyze starts from
FirstMessages ==
    <<PyDict([role |-> PyStr("system"), content |-> PyStr("You are a camera health diagnostic expert AI agent.")]),
      PyDict([role |-> PyStr("user"), content |-> PyStr("Why is RUHSM173 degraded?")])>>

InitLocal ==
    /\ localPc = "loop"
    /\ max_iterations \in 0..MaxIterations
    /\ iteration = 0
    /\ messages = FirstMessages
    /\ message = PyNone
    /\ tool_calls = PyNone
    /\ toolIdx = 0
    /\ tool_results = <<>>
    /\ localReturn = NotCalled
    /\ responses = <<>>
    /\ failures = <<>>
    /\ LocalRestIdle

\* return value
ReturnLocal(value) ==
    /\ localPc' = "localReturn"
    /\ localReturn' = [exc |-> "", val |-> PyStr(value)]

\* An exception leaves analyze
RaiseLocal(e) ==
    /\ localPc' = "raised"
    /\ localReturn' = [exc |-> e, val |-> PyNone]

\* One pass of the while loop up to the test of tool_calls, and the else
\* branch after it
Chat ==
    /\ localPc = "loop"
    /\ iteration < max_iterations
    /\ iteration' = iteration + 1
    /\ \E outcome \in ChatOutcomes :
        /\ responses' = Append(responses, outcome)
        /\ IF outcome.exc # ""
               THEN ReturnLocal("Error: " \o outcome.exc) /\ UNCHANGED <<message, tool_calls, toolIdx>>
           ELSE IF ~IsDict(outcome.val)
               THEN RaiseLocal("AttributeError") /\ UNCHANGED <<message, tool_calls, toolIdx>>
           ELSE LET msg == Get(outcome.val, "message", PyDict(EmptyMap))
                IN  IF ~IsDict(msg)
                        THEN RaiseLocal("AttributeError") /\ UNCHANGED <<message, tool_calls, toolIdx>>
                    ELSE LET calls == Get(msg, "tool_calls", PyList(<<>>))
                             content == Get(msg, "content", PyStr(""))
                         IN  IF Truthy(calls)
                                 THEN /\ message' = msg
                                      /\ tool_calls' = calls
                                      /\ toolIdx' = 1
                                      /\ localPc' = "tools"
                                      /\ UNCHANGED localReturn
                             ELSE /\ ReturnLocal(IF Truthy(content) THEN content.v
                                                 ELSE str_response(outcome.val))
                                  /\ UNCHANGED <<message, tool_calls, toolIdx>>
    /\ tool_results' = <<>>
    /\ UNCHANGED <<max_iterations, messages, failures>>
    /\ UNCHANGED localRest

\* One pass of 'for tool_call in tool_calls'
CallTool ==
    /\ localPc = "tools"
    /\ toolIdx <= Len(tool_calls.v)
    /\ LET tool_call == tool_calls.v[toolIdx]
           function == Get(tool_call, "function", PyDict(EmptyMap))
           tool_name == Get(function, "name", PyNone)
           tool_args == Get(function, "arguments", PyDict(EmptyMap))
           parsed == IF tool_args.k = "str" THEN json_loads(tool_args.v)
                     ELSE [exc |-> "", val |-> tool_args]
       IN  IF parsed.exc # ""
               THEN /\ RaiseLocal(parsed.exc)
                    /\ UNCHANGED <<toolIdx, tool_results, failures>>
           ELSE \E outcome \in ToolOutcomes :
                    /\ toolIdx' = toolIdx + 1
                    /\ UNCHANGED <<localPc, localReturn>>
                    /\ IF outcome.exc = ""
                           THEN /\ tool_results' = Append(tool_results,
                                        PyDict([role |-> PyStr("tool"), name |-> tool_name,
                                                content |-> outcome.val]))
                                /\ UNCHANGED failures
                       ELSE /\ tool_results' = Append(tool_results,
                                        PyDict([role |-> PyStr("tool"), name |-> tool_name,
                                                content |-> PyStr(ErrorObject(outcome.exc))]))
                            /\ failures' = Append(failures, <<tool_name, outcome.exc>>)
    /\ UNCHANGED <<max_iterations, iteration, messages, message, tool_calls, responses>>
    /\ UNCHANGED localRest

\* messages.append(the assistant message); messages.extend(tool_results)
ExtendMessages ==
    /\ localPc = "tools"
    /\ toolIdx > Len(tool_calls.v)
    /\ messages' = Append(messages,
                          PyDict([role |-> PyStr("assistant"),
                                  content |-> Get(message, "content", PyStr("")),
                                  tool_calls |-> tool_calls]))
                        \o tool_results
    /\ localPc' = "loop"
    /\ UNCHANGED <<max_iterations, iteration, message, tool_calls, toolIdx, tool_results,
                   localReturn, responses, failures>>
    /\ UNCHANGED localRest

\* The while condition fails
Incomplete ==
    /\ localPc = "loop"
    /\ iteration >= max_iterations
    /\ ReturnLocal("Analysis incomplete - reached maximum iterations")
    /\ UNCHANGED <<max_iterations, iteration, messages, message, tool_calls, toolIdx,
                   tool_results, responses, failures>>
    /\ UNCHANGED localRest

NextLocal ==
    \/ Chat
    \/ CallTool
    \/ ExtendMessages
    \/ Incomplete

SpecLocal == InitLocal /\ [][NextLocal]_vars

\* The response asks for tools: its message carries a non-empty list
RequestsTools(outcome) ==
    /\ outcome.exc = ""
    /\ IsDict(outcome.val)
    /\ Has(outcome.val, "message")
    /\ IsDict(outcome.val.v["message"])
    /\ Has(outcome.val.v["message"], "tool_calls")
    /\ outcome.val.v["message"].v["tool_calls"] # PyList(<<>>)

\* The response carries a content and no tool calls
Answers(outcome) ==
    /\ outcome.exc = ""
    /\ ~RequestsTools(outcome)
    /\ IsDict(outcome.val)
    /\ Has(outcome.val, "message")
    /\ Has(outcome.val.v["message"], "content")
    /\ outcome.val.v["message"].v["content"] # PyStr("")

\* analyze has returned or raised
Ended == localPc \in {"returned", "raised"}

IncompleteText == "Analysis incomplete - reached maximum iterations"

\* C29: analyze makes at most max_iterations LLM calls; it returns the
\* content of the first response without tool calls (here: of a response
\* that has a content), returns "Error: ..." as soon as an LLM call
\* fails, and returns "Analysis incomplete - reached maximum iterations"
\* exactly when all max_iterations responses requested tools; a failing
\* tool call is kept as a tool message whose content is an error object.
C29_BoundedLoop ==
    LET n == Len(responses)
    IN  /\ n <= max_iterations
        /\ \A k \in 1..(n - 1) : RequestsTools(responses[k])
        /\ (Ended /\ n > 0 /\ responses[n].exc # "") =>
                localReturn = [exc |-> "", val |-> PyStr("Error: " \o responses[n].exc)]
        /\ (Ended /\ n > 0 /\ Answers(responses[n])) =>
                localReturn = [exc |-> "", val |-> responses[n].val.v["message"].v["content"]]
        /\ Ended =>
                (localReturn = [exc |-> "", val |-> PyStr(IncompleteText)]
                    <=> (n = max_iterations /\ \A k \in 1..n : RequestsTools(responses[k])))
        /\ \A f \in 1..Len(failures) :
                LET kept == messages \o tool_results
                IN  \E m \in 1..Len(kept) :
                        kept[m] = PyDict([role |-> PyStr("tool"), name |-> failures[f][1],
                                          content |-> PyStr("{\"error\": \"" \o failures[f][2] \o "\"}")])

\* ------------------------------------------------------------------
\* run_extraction (src/run_extraction.py): the OBJECTID batch loop of
\* one district
\* ------------------------------------------------------------------

\* The parcels the server holds for one land use of the district
MaxParcels == 2

\* batch = 2000
batch == 2000

\* for land_use in [1000, 1012, 1100]
land_uses == <<1000, 1012, 1100>>

\* The OBJECTIDs of the district on the server
ObjectIds == {1, 2000, 2001, 4500}

\* The parcels of one land use: a set of OBJECTIDs
ParcelSets == {S \in SUBSET ObjectIds : Cardinality(S) <= MaxParcels}

\* The elements of a set of numbers in increasing order
RECURSIVE Ascending(_)
Ascending(S) ==
    IF S = {} THEN <<>>
    ELSE LET least == CHOOSE x \in S : \A y \in S : x <= y
         IN  <<least>> \o Ascending(S \ {least})

\* get_oid_range: (MIN_OID, MAX_OID) of the parcels, (None, None) when
\* there are none
get_oid_range(S) ==
    IF S = {} THEN <<PyNone, PyNone>>
    ELSE <<PyInt(CHOOSE x \in S : \A y \in S : x <= y),
           PyInt(CHOOSE x \in S : \A y \in S : x >= y)>>

\* The features the server returns for
\* OBJECTID >= cur AND OBJECTID < cur + batch
Features(S, from) == Ascending({oid \in S : oid >= from /\ oid < from + batch})

\* fetch_batch when the request succeeds: the features whose str(OBJECTID)
\* is not in existing_oids
fetch_batch(S, from, existing) ==
    SelectSeq(Features(S, from), LAMBDA oid : ToString(oid) \notin existing)

InitRun ==
    /\ runPc = "land_use"
    /\ landIdx = 1
    /\ served = {}
    /\ min_oid = PyNone
    /\ max_oid = PyNone
    /\ cursor = 0
    /\ retries = 0
    /\ existing_oids \in {{}, {ToString(2000)}}
    /\ rows = <<>>
    /\ batchEnd = ""
    /\ RunRestIdle

\* One pass of 'for land_use in [...]' up to the while loop: the range is
\* asked for; without one (no parcels, or a failed request) the land use
\* is passed over
EnterLandUse ==
    /\ runPc = "land_use"
    /\ landIdx <= Len(land_uses)
    /\ \E S \in ParcelSets, answered \in BOOLEAN :
        LET range == IF answered THEN get_oid_range(S) ELSE <<PyNone, PyNone>>
        IN  /\ served' = S
            /\ min_oid' = range[1]
            /\ max_oid' = range[2]
            /\ IF ~Truthy(range[1])
                   THEN /\ landIdx' = landIdx + 1
                        /\ UNCHANGED <<runPc, cursor, retries>>
               ELSE /\ cursor' = range[1].v
                    /\ retries' = 0
                    /\ runPc' = "while"
                    /\ UNCHANGED landIdx
    /\ batchEnd' = ""
    /\ UNCHANGED <<existing_oids, rows>>
    /\ UNCHANGED runRest

\* The rows 1..n of parcels written, each added to existing_oids
Written(parcels, n) == {ToString(parcels[k]) : k \in 1..n}

\* One pass of 'while cur <= max_oid': the request of fetch_batch fails
\* (it returns []), or it answers and the rows are written, or writing
\* row n raises
Batch ==
    /\ runPc = "while"
    /\ cursor <= max_oid.v
    /\ \/ /\ batchEnd' = "fetch failed"
          /\ cursor' = cursor + batch
          /\ retries' = 0
          /\ UNCHANGED <<existing_oids, rows>>
       \/ LET parcels == fetch_batch(served, cursor, existing_oids)
          IN  \/ /\ batchEnd' = "written"
                 /\ rows' = rows \o parcels
                 /\ existing_oids' = existing_oids \cup Written(parcels, Len(parcels))
                 /\ cursor' = cursor + batch
                 /\ retries' = 0
              \/ \E n \in 1..Len(parcels) :
                    /\ batchEnd' = "write failed"
                    /\ rows' = rows \o SubSeq(parcels, 1, n - 1)
                    /\ existing_oids' = existing_oids \cup Written(parcels, n - 1)
                    /\ IF retries + 1 > 3
                           THEN cursor' = cursor + batch /\ retries' = 0
                       ELSE cursor' = cursor /\ retries' = retries + 1
    /\ UNCHANGED <<runPc, landIdx, served, min_oid, max_oid>>
    /\ UNCHANGED runRest

\* The while condition fails: the next land use
LeaveLoop ==
    /\ runPc = "while"
    /\ cursor > max_oid.v
    /\ runPc' = "land_use"
    /\ landIdx' = landIdx + 1
    /\ batchEnd' = ""
    /\ UNCHANGED <<served, min_oid, max_oid, cursor, retries, existing_oids, rows>>
    /\ UNCHANGED runRest

\* The for loop is exhausted
EndDistrict ==
    /\ runPc = "land_use"
    /\ landIdx > Len(land_uses)
    /\ runPc' = "done"
    /\ UNCHANGED <<landIdx, served, min_oid, max_oid, cursor, retries, existing_oids,
                   rows, batchEnd>>
    /\ UNCHANGED runRest

NextRun ==
    \/ EnterLandUse
    \/ Batch
    \/ LeaveLoop
    \/ EndDistrict

SpecRun == InitRun /\ [][NextRun]_vars

\* The script runs on: no step that can be taken is put off for ever
SpecRunFair == SpecRun /\ WF_vars(NextRun)

\* A step of the while loop that stays in it: one batch
BatchStep == runPc = "while" /\ runPc' = "while" /\ batchEnd' # ""

\* The batch failed: its request, or the writing of its rows
BatchFailed == batchEnd' \in {"fetch failed", "write failed"}

CursorNeverDecreases == BatchStep => cursor' >= cursor

SuccessAdvances ==
    (BatchStep /\ batchEnd' = "written") => (cursor' = cursor + 2000 /\ retries' = 0)

FailureRetriesThenSkips ==
    (BatchStep /\ BatchFailed) =>
        IF retries < 3 THEN cursor' = cursor /\ retries' = retries + 1
        ELSE cursor' = cursor + 2000 /\ retries' = 0

LoopTerminates == (runPc = "while") ~> (runPc # "while")

\* C30: in the OBJECTID loop the cursor never decreases and the loop over
\* [min_oid, max_oid] terminates; a batch that succeeds advances the
\* cursor by the batch size; a batch that fails is retried with the
\* cursor unchanged up to 3 times and is then skipped by advancing the
\* cursor; the retry counter is 0 after every advance.
C30_Pagination ==
    /\ [][CursorNeverDecreases /\ SuccessAdvances /\ FailureRetriesThenSkips]_vars
    /\ LoopTerminates

====
